---------------------------- MODULE Spec2Model ----------------------------
(***************************************************************************)
(* Model of the lara-go client library: the transport (Client.request,     *)
(* Client.handleContent and the verbs built on them), the domain           *)
(* operations that call it, and the long-running-operation pollers         *)
(* (MemoriesService.WaitForImport, GlossariesService.WaitForImport,        *)
(* DocumentsService.waitForTranslation).                                   *)
(*                                                                         *)
(* Go error values are records [kind, status, etype, msg, wrap]:           *)
(*   kind   the dynamic type of the innermost error value,                 *)
(*   status/etype/msg   the fields of that value,                          *)
(*   wrap   the format prefixes of the fmt.Errorf("...: %w") wrappers      *)
(*          around it, outermost first.  A non-empty wrap means the value  *)
(*          the caller holds is a *fmt.wrapError.                          *)
(***************************************************************************)
EXTENDS Integers, Sequences, FiniteSets, TLC

(***************************************************************************)
(* Bounds of the model.                                                    *)
(***************************************************************************)
MaxTime == 7
MaxFetches == 3

(***************************************************************************)
(* Program constants.                                                      *)
(***************************************************************************)
\* 2 * time.Second, in clock units of one second
PollInterval == 2
\* the completion threshold 1.0, progress being counted in tenths
ProgressOne == 10

(***************************************************************************)
(* Error values.                                                           *)
(***************************************************************************)
NoErr == [kind |-> "nil", status |-> 0, etype |-> "", msg |-> "", wrap |-> <<>>]

LaraError(status, type, message) ==
    [kind |-> "LaraError", status |-> status, etype |-> type, msg |-> message, wrap |-> <<>>]

LaraConnectionError(message) ==
    [kind |-> "LaraConnectionError", status |-> 0, etype |-> "", msg |-> message, wrap |-> <<>>]

LaraTimeoutError(message) ==
    [kind |-> "LaraTimeoutError", status |-> 0, etype |-> "", msg |-> message, wrap |-> <<>>]

\* fmt.Errorf / errors.New without a %w verb: a *errors.errorString
ErrorString(text) ==
    [kind |-> "errorString", status |-> 0, etype |-> "", msg |-> text, wrap |-> <<>>]

\* an error value produced by a library (encoding/json, io, net/http)
LibError(kind, text) ==
    [kind |-> kind, status |-> 0, etype |-> "", msg |-> text, wrap |-> <<>>]

\* fmt.Errorf(prefix + "%w", e): a *fmt.wrapError around e
Wrap(prefix, e) == [e EXCEPT !.wrap = <<prefix>> \o @]

\* the dynamic type of the error value the caller holds, as seen by a type
\* assertion err.(*T)
GoType(e) == IF e.wrap # <<>> THEN "wrapError" ELSE e.kind

\* strings.Contains
Contains(s, sub) ==
    \E i \in 1..(Len(s) - Len(sub) + 1) : SubSeq(s, i, i + Len(sub) - 1) = sub

\* strings.HasPrefix
HasPrefix(s, pre) == Len(s) >= Len(pre) /\ SubSeq(s, 1, Len(pre)) = pre


(***************************************************************************)
(* Job records.  ID and Progress of Import, ID, Status and ErrorReason of  *)
(* Document; the fields no operation of the library reads are left out.    *)
(* Progress is counted in tenths.  A decoded value that is a list of       *)
(* strings (the []string of Translator.Languages) has its elements in      *)
(* items; a struct has none.                                               *)
(***************************************************************************)
Import(id, progress) ==
    [id |-> id, progress |-> progress, status |-> "", reason |-> "", items |-> <<>>]

Document(id, status, reason) ==
    [id |-> id, progress |-> 0, status |-> status, reason |-> reason, items |-> <<>>]

\* a []string holding the given elements
Strings(items) == [id |-> "", progress |-> 0, status |-> "", reason |-> "", items |-> items]

\* the zero value of a Go struct: what json.Unmarshal leaves of a destination
\* whose fields the input does not name
ZeroValue == [id |-> "", progress |-> 0, status |-> "", reason |-> "", items |-> <<>>]

DocumentStatusTranslated == "translated"
DocumentStatusError == "error"

(***************************************************************************)
(* Response bodies.  A body is its raw text together with what             *)
(* encoding/json makes of that text:                                       *)
(*   form      "text" (not JSON), "array", "null" or "object";             *)
(*   wellTyped whether the members status, error.type and error.message    *)
(*             of an object have the JSON types of the apiError struct;    *)
(*   status, etype, emsg   the values of those members (zero when absent); *)
(*   content   the member "content": cform is "absent", "null", "string",  *)
(*             "badfield" (an object with a member of the wrong JSON type),*)
(*             "array" (of strings, the elements in obj.items)             *)
(*             or "object", whose members are obj.                         *)
(***************************************************************************)
NoContent == [cform |-> "absent", obj |-> ZeroValue]

ProgressText(p) == ToString(p \div 10) \o "." \o ToString(p % 10)

TextBody(text) ==
    [raw |-> text, form |-> "text", wellTyped |-> FALSE,
     status |-> 0, etype |-> "", emsg |-> "", content |-> NoContent]

ArrayBody ==
    [raw |-> "[]", form |-> "array", wellTyped |-> FALSE,
     status |-> 0, etype |-> "", emsg |-> "", content |-> NoContent]

NullBody ==
    [raw |-> "null", form |-> "null", wellTyped |-> TRUE,
     status |-> 0, etype |-> "", emsg |-> "", content |-> NoContent]

ErrorEnvelope(status, type, message) ==
    [raw |-> "{\"status\":" \o ToString(status) \o ",\"error\":{\"type\":\"" \o type
               \o "\",\"message\":\"" \o message \o "\"}}",
     form |-> "object", wellTyped |-> TRUE,
     status |-> status, etype |-> type, emsg |-> message, content |-> NoContent]

\* an error envelope without the member error.type
UntypedEnvelope(status, message) ==
    [raw |-> "{\"status\":" \o ToString(status) \o ",\"error\":{\"message\":\""
               \o message \o "\"}}",
     form |-> "object", wellTyped |-> TRUE,
     status |-> status, etype |-> "", emsg |-> message, content |-> NoContent]

\* an error envelope whose status is a JSON string: json.Unmarshal stores
\* error.type and error.message and reports an UnmarshalTypeError
MistypedEnvelope(type, message) ==
    [raw |-> "{\"status\":\"500\",\"error\":{\"type\":\"" \o type
               \o "\",\"message\":\"" \o message \o "\"}}",
     form |-> "object", wellTyped |-> FALSE,
     status |-> 0, etype |-> type, emsg |-> message, content |-> NoContent]

ImportEnvelope(id, progress) ==
    [raw |-> "{\"content\":{\"id\":\"" \o id \o "\",\"progress\":"
               \o ProgressText(progress) \o "}}",
     form |-> "object", wellTyped |-> TRUE,
     status |-> 0, etype |-> "", emsg |-> "",
     content |-> [cform |-> "object", obj |-> Import(id, progress)]]

\* a Document without error_reason has a nil ErrorReason, the reason ""
DocumentEnvelope(id, status, reason) ==
    [raw |-> "{\"content\":{\"id\":\"" \o id \o "\",\"status\":\"" \o status \o "\""
               \o (IF reason = "" THEN ""
                    ELSE ",\"error_reason\":\"" \o reason \o "\"") \o "}}",
     form |-> "object", wellTyped |-> TRUE,
     status |-> 0, etype |-> "", emsg |-> "",
     content |-> [cform |-> "object", obj |-> Document(id, status, reason)]]

NullContentEnvelope ==
    [raw |-> "{\"content\":null}", form |-> "object", wellTyped |-> TRUE,
     status |-> 0, etype |-> "", emsg |-> "",
     content |-> [cform |-> "null", obj |-> ZeroValue]]

StringContentEnvelope ==
    [raw |-> "{\"content\":\"ok\"}", form |-> "object", wellTyped |-> TRUE,
     status |-> 0, etype |-> "", emsg |-> "",
     content |-> [cform |-> "string", obj |-> ZeroValue]]

BadFieldEnvelope ==
    [raw |-> "{\"content\":{\"id\":7}}", form |-> "object", wellTyped |-> TRUE,
     status |-> 0, etype |-> "", emsg |-> "",
     content |-> [cform |-> "badfield", obj |-> ZeroValue]]

StringsEnvelope ==
    [raw |-> "{\"content\":[\"en\",\"it\"]}", form |-> "object", wellTyped |-> TRUE,
     status |-> 0, etype |-> "", emsg |-> "",
     content |-> [cform |-> "array", obj |-> Strings(<<"en", "it">>)]]

EmptyObjectBody ==
    [raw |-> "{}", form |-> "object", wellTyped |-> TRUE,
     status |-> 0, etype |-> "", emsg |-> "", content |-> NoContent]

\* json.Unmarshal(respBody, &apiError): the error it returns ("nil" kind when
\* it succeeds).  null leaves the struct untouched and succeeds.
UnmarshalApiError(body) ==
    CASE body.form = "text" -> LibError("json.SyntaxError", "invalid character")
      [] body.form = "array" ->
            LibError("json.UnmarshalTypeError", "cannot unmarshal array into Go value")
      [] body.form = "object" /\ ~body.wellTyped ->
            LibError("json.UnmarshalTypeError", "cannot unmarshal string into Go struct field")
      [] OTHER -> NoErr

\* json.Unmarshal(respBytes, &apiResponse) of handleContent: Content is a
\* json.RawMessage, so only the outer shape of the body can fail
UnmarshalApiResponse(body) ==
    CASE body.form = "text" -> LibError("json.SyntaxError", "invalid character")
      [] body.form = "array" ->
            LibError("json.UnmarshalTypeError", "cannot unmarshal array into Go value")
      [] OTHER -> NoErr

\* the Content the envelope struct holds after UnmarshalApiResponse: the raw
\* member, or nothing when the body is null or has no such member
RawContent(body) == IF body.form = "object" THEN body.content ELSE NoContent

\* the modelled members of each destination struct
Fields(dest) ==
    CASE dest = "Import" -> {"id", "progress"}
      [] dest = "Document" -> {"id", "status", "reason"}
      [] dest = "Memory" -> {"id"}
      [] dest = "Glossary" -> {"id"}
      [] OTHER -> {}

\* json.Unmarshal(apiResponse.Content, result) for a destination that is a
\* fresh value of type dest, a struct or the slice "Strings": the error and
\* the destination afterwards.  Members the struct does not have are ignored,
\* members the input does not have stay zero; null leaves the destination as
\* it is.
UnmarshalContent(content, dest) ==
    IF content.cform = "absent"
    THEN [err |-> LibError("json.SyntaxError", "unexpected end of JSON input"),
          val |-> ZeroValue]
    ELSE IF content.cform = "null"
    THEN [err |-> NoErr, val |-> ZeroValue]
    ELSE IF content.cform = "string"
    THEN [err |-> LibError("json.UnmarshalTypeError", "cannot unmarshal string into Go value"),
          val |-> ZeroValue]
    ELSE IF dest = "Strings"
    THEN IF content.cform = "array"
         THEN [err |-> NoErr, val |-> Strings(content.obj.items)]
         ELSE [err |-> LibError("json.UnmarshalTypeError", "cannot unmarshal object into Go value"),
               val |-> ZeroValue]
    ELSE IF content.cform = "array"
    THEN [err |-> LibError("json.UnmarshalTypeError", "cannot unmarshal array into Go value"),
          val |-> ZeroValue]
    ELSE IF content.cform = "badfield"
    THEN [err |-> LibError("json.UnmarshalTypeError", "cannot unmarshal number into Go struct field"),
          val |-> ZeroValue]
    ELSE [err |-> NoErr,
          val |-> [id |-> IF "id" \in Fields(dest) THEN content.obj.id ELSE "",
                   progress |-> IF "progress" \in Fields(dest) THEN content.obj.progress ELSE 0,
                   status |-> IF "status" \in Fields(dest) THEN content.obj.status ELSE "",
                   reason |-> IF "reason" \in Fields(dest) THEN content.obj.reason ELSE "",
                   items |-> <<>>]]

(***************************************************************************)
(* Transport behaviours: what c.httpClient.Do and the reading of the       *)
(* response body do for one request.  kind "error": Do returns the error   *)
(* with message errmsg.  kind "response": Do returns a response with the   *)
(* given status whose body is read completely (readOk) or whose reading    *)
(* fails.                                                                  *)
(***************************************************************************)
TransportError(message) ==
    [kind |-> "error", errmsg |-> message, status |-> 0, readOk |-> FALSE, body |-> TextBody("")]

Response(status, body) ==
    [kind |-> "response", errmsg |-> "", status |-> status, readOk |-> TRUE, body |-> body]

BrokenResponse(status) ==
    [kind |-> "response", errmsg |-> "", status |-> status, readOk |-> FALSE, body |-> TextBody("")]

\* what request returns besides the error: no bytes
NilBytes == TextBody("")

(***************************************************************************)
(* Client.request.  body is "nil", "json" (serializable) or "unserializable"*)
(* (json.Marshal fails); files is "none", "readable" or "unreadable" (the  *)
(* reader of an attachment fails); urlOk is whether http.NewRequest        *)
(* accepts the method and URL.  Returns                                    *)
(*   bytes, err   the two results of the function,                         *)
(*   sent         whether httpClient.Do was called,                        *)
(*   sends        the number of calls of httpClient.Do,                    *)
(*   parsed       whether the response body was given to json.Unmarshal.   *)
(***************************************************************************)
PrepareError(urlOk, body, files) ==
    IF files = "unreadable"
    THEN Wrap("failed to copy file data: ", LibError("io.error", "read failed"))
    ELSE IF files = "readable" /\ body = "unserializable"
    THEN Wrap("failed to marshal body for multipart: ",
              LibError("json.UnsupportedTypeError", "json: unsupported type"))
    ELSE IF files = "none" /\ body = "unserializable"
    THEN Wrap("failed to marshal request body: ",
              LibError("json.UnsupportedTypeError", "json: unsupported type"))
    ELSE IF ~urlOk
    THEN Wrap("failed to create request: ", LibError("url.Error", "invalid URL"))
    ELSE NoErr

\* the timeout test made without regard to letter case
SendErrorAnyCase(message) ==
    IF Contains(message, "timeout") \/ Contains(message, "Timeout")
    THEN LaraTimeoutError(message)
    ELSE LaraConnectionError(message)

\* the classification of the error of httpClient.Do
SendError(message) ==
    IF Contains(message, "timeout")
    THEN LaraTimeoutError(message)
    ELSE LaraConnectionError(message)

\* only the statuses from 400 on treated as failures
StatusErrorFrom400(status, respBody) ==
    IF status >= 400
    THEN IF UnmarshalApiError(respBody) = NoErr /\ respBody.etype # ""
         THEN LaraError(respBody.status, respBody.etype, respBody.emsg)
         ELSE ErrorString("API error: " \o respBody.raw)
    ELSE NoErr

\* the HTTP status code reported instead of the envelope's status
StatusErrorHttpStatus(status, respBody) ==
    IF status < 200 \/ status >= 300
    THEN IF UnmarshalApiError(respBody) = NoErr /\ respBody.etype # ""
         THEN LaraError(status, respBody.etype, respBody.emsg)
         ELSE ErrorString("API error: " \o respBody.raw)
    ELSE NoErr

\* the handling of a response whose body was read, by status
StatusError(status, respBody) ==
    IF status < 200 \/ status >= 300
    THEN IF UnmarshalApiError(respBody) = NoErr /\ respBody.etype # ""
         THEN LaraError(respBody.status, respBody.etype, respBody.emsg)
         ELSE ErrorString("API error: " \o respBody.raw)
    ELSE NoErr

\* the request sent again after a failure of the transport
DoRetrying(beh) == IF beh.kind = "error" THEN 2 ELSE 1

\* resp, err := c.httpClient.Do(req): the calls of Do one call of request
\* makes once the request is prepared
Do(beh) == 1

request(method, urlOk, body, files, beh) ==
    LET prep == PrepareError(urlOk, body, files) IN
    IF prep # NoErr
    THEN [bytes |-> NilBytes, err |-> prep, sent |-> FALSE, parsed |-> FALSE, sends |-> 0]
    ELSE IF beh.kind = "error"
    THEN [bytes |-> NilBytes, err |-> SendError(beh.errmsg), sent |-> TRUE, parsed |-> FALSE,
          sends |-> Do(beh)]
    ELSE IF ~beh.readOk
    THEN [bytes |-> NilBytes,
          err |-> Wrap("failed to read response body: ", LibError("io.error", "unexpected EOF")),
          sent |-> TRUE, parsed |-> FALSE, sends |-> Do(beh)]
    ELSE IF StatusError(beh.status, beh.body) # NoErr
    THEN [bytes |-> NilBytes, err |-> StatusError(beh.status, beh.body),
          sent |-> TRUE, parsed |-> TRUE, sends |-> Do(beh)]
    ELSE [bytes |-> beh.body, err |-> NoErr, sent |-> TRUE, parsed |-> FALSE,
          sends |-> Do(beh)]

(***************************************************************************)
(* Client.handleContent and the verbs.  A verb returns                     *)
(*   err, val    the error and the destination after the call,             *)
(*   reqErr      the error Client.request returned to the verb,            *)
(*   sends       the number of HTTP requests the call sent,                *)
(*   sent, parsed, decoded   whether the request was sent, whether request *)
(*               parsed the body as an error envelope, whether             *)
(*               handleContent ran.                                        *)
(***************************************************************************)
handleContentNoUnwrap(respBytes, dest) ==
    IF UnmarshalApiResponse(respBytes) # NoErr
    THEN [err |-> Wrap("failed to parse API response: ", UnmarshalApiResponse(respBytes)),
          val |-> ZeroValue]
    ELSE UnmarshalContent([cform |-> IF respBytes.form = "null" THEN "null" ELSE "object",
                           obj |-> ZeroValue], dest)

handleContent(respBytes, dest) ==
    IF UnmarshalApiResponse(respBytes) # NoErr
    THEN [err |-> Wrap("failed to parse API response: ", UnmarshalApiResponse(respBytes)),
          val |-> ZeroValue]
    ELSE UnmarshalContent(RawContent(respBytes), dest)

Verb(r, dest) ==
    IF r.err # NoErr
    THEN [err |-> r.err, val |-> ZeroValue, reqErr |-> r.err,
          sent |-> r.sent, parsed |-> r.parsed, decoded |-> FALSE, sends |-> r.sends]
    ELSE [err |-> handleContent(r.bytes, dest).err, val |-> handleContent(r.bytes, dest).val,
          reqErr |-> r.err, sent |-> r.sent, parsed |-> r.parsed, decoded |-> TRUE,
          sends |-> r.sends]

Get(urlOk, beh, dest) == Verb(request("GET", urlOk, "nil", "none", beh), dest)

Post(urlOk, body, files, beh, dest) == Verb(request("POST", urlOk, body, files, beh), dest)

Put(urlOk, body, files, beh, dest) == Verb(request("PUT", urlOk, body, files, beh), dest)

Delete(urlOk, body, beh, dest) == Verb(request("DELETE", urlOk, body, "none", beh), dest)

\* GetRaw returns the bytes of request as they are: handleContent does not run
GetRaw(urlOk, beh) ==
    LET r == request("GET", urlOk, "nil", "none", beh) IN
    [err |-> r.err, val |-> r.bytes, reqErr |-> r.err,
     sent |-> r.sent, parsed |-> r.parsed, decoded |-> FALSE, sends |-> r.sends]

(***************************************************************************)
(* Domain operations.  Each returns                                        *)
(*   val, ok   the object returned and whether it is non-nil,              *)
(*   err       the error returned to the caller,                           *)
(*   out       the result of the verb it called.                           *)
(***************************************************************************)
Returned(prefix, out) ==
    IF out.err # NoErr
    THEN [val |-> ZeroValue, ok |-> FALSE, err |-> Wrap(prefix, out.err), out |-> out]
    ELSE [val |-> out.val, ok |-> TRUE, err |-> NoErr, out |-> out]

TranslatorTranslate(urlOk, beh) ==
    Returned("failed to translate text: ", Post(urlOk, "json", "none", beh, "TextResult"))

\* every *LaraError taken for "not found", whatever its status
GetOrNilAnyStatus(prefix, out) ==
    IF out.err # NoErr /\ GoType(out.err) = "LaraError"
    THEN [val |-> ZeroValue, ok |-> FALSE, err |-> NoErr, out |-> out]
    ELSE Returned(prefix, out)

\* MemoriesService.Get and GlossariesService.Get: a *LaraError with status
\* 404 becomes (nil, nil)
GetOrNil(prefix, out) ==
    IF out.err # NoErr /\ GoType(out.err) = "LaraError" /\ out.err.status = 404
    THEN [val |-> ZeroValue, ok |-> FALSE, err |-> NoErr, out |-> out]
    ELSE Returned(prefix, out)

MemoriesGet(urlOk, beh) == GetOrNil("failed to get memory: ", Get(urlOk, beh, "Memory"))

GlossariesGet(urlOk, beh) == GetOrNil("failed to get glossary: ", Get(urlOk, beh, "Glossary"))

MemoriesGetImportStatus(urlOk, beh) ==
    Returned("failed to get import status: ", Get(urlOk, beh, "Import"))

GlossariesGetImportStatus(urlOk, beh) ==
    Returned("failed to get glossary import status: ", Get(urlOk, beh, "Import"))

DocumentsStatus(urlOk, beh) ==
    Returned("failed to get document status: ", Get(urlOk, beh, "Document"))

(***************************************************************************)
(* Inputs.                                                                 *)
(***************************************************************************)
Ids == {"i1", "i2"}

\* 0.0, 0.5, 1.0 and 1.1
Progresses == {0, 5, 10, 11}

Imports == {Import(i, p) : i \in Ids, p \in Progresses}

Documents ==
    {Document(i, "translating", "") : i \in Ids}
        \cup {Document(i, DocumentStatusTranslated, "") : i \in Ids}
        \cup {Document(i, DocumentStatusError, "bad file") : i \in Ids}
        \cup {Document("i1", DocumentStatusError, "")}
        \cup {Document("i1", "paused", "")}

\* the maximum waits a caller passes, in seconds
MaxWaits == {0, 3}

TransportErrors ==
    {TransportError("net/http: timeout awaiting response headers"),
     TransportError("dial tcp: connection refused"),
     TransportError("Client.Timeout exceeded while awaiting headers")}

HttpStatuses == {199, 200, 299, 300, 404, 500}

\* the destinations a verb decodes into
Dests == {"Import", "Document", "Strings"}

Bodies ==
    {TextBody("Internal Server Error"), ArrayBody, NullBody, EmptyObjectBody,
     ErrorEnvelope(404, "NotFound", "nope"), ErrorEnvelope(400, "BadRequest", "bad"),
     UntypedEnvelope(500, "boom"), MistypedEnvelope("Oops", "x"),
     ImportEnvelope("i1", 5), DocumentEnvelope("i2", "translated", ""),
     NullContentEnvelope, StringContentEnvelope, BadFieldEnvelope, StringsEnvelope}

Behaviours ==
    TransportErrors
        \cup {Response(st, b) : st \in HttpStatuses, b \in Bodies}
        \cup {BrokenResponse(st) : st \in {200, 500}}

\* the failures a status fetch meets, one of each kind
FetchFailures ==
    TransportErrors
        \cup {Response(404, ErrorEnvelope(404, "NotFound", "nope")),
              Response(500, TextBody("Internal Server Error")),
              Response(200, BadFieldEnvelope),
              BrokenResponse(200)}

ImportBehaviours ==
    FetchFailures \cup {Response(200, ImportEnvelope(i, p)) : i \in Ids, p \in Progresses}

DocumentBehaviours ==
    FetchFailures \cup {Response(200, DocumentEnvelope(d.id, d.status, d.reason)) : d \in Documents}

(***************************************************************************)
(* Construction of a request (Client.request up to the sending).  Header   *)
(* maps are functions from header names to values.  The digests are not    *)
(* computed: Md5Hex and HmacSha256 are the terms "md5(..)" and "hmac(..)"  *)
(* over their arguments, that is MD5 and HMAC-SHA256 without collisions.   *)
(***************************************************************************)
LowerLetters == "abcdefghijklmnopqrstuvwxyz"
UpperLetters == "ABCDEFGHIJKLMNOPQRSTUVWXYZ"

UpperChar(c) ==
    IF \E i \in 1..26 : SubSeq(LowerLetters, i, i) = c
    THEN LET i == CHOOSE k \in 1..26 : SubSeq(LowerLetters, k, k) = c
         IN SubSeq(UpperLetters, i, i)
    ELSE c

LowerChar(c) ==
    IF \E i \in 1..26 : SubSeq(UpperLetters, i, i) = c
    THEN LET i == CHOOSE k \in 1..26 : SubSeq(UpperLetters, k, k) = c
         IN SubSeq(LowerLetters, i, i)
    ELSE c

\* strings.ToUpper
RECURSIVE ToUpper(_)
ToUpper(s) ==
    IF Len(s) = 0 THEN "" ELSE UpperChar(SubSeq(s, 1, 1)) \o ToUpper(SubSeq(s, 2, Len(s)))

\* textproto.CanonicalMIMEHeaderKey, which http.Header.Set and Get apply to
\* the name: the first letter and every letter after a hyphen in upper case,
\* the others in lower case
RECURSIVE CanonicalFrom(_, _)
CanonicalFrom(s, upper) ==
    IF Len(s) = 0 THEN ""
    ELSE LET c == SubSeq(s, 1, 1) IN
         (IF upper THEN UpperChar(c) ELSE LowerChar(c))
             \o CanonicalFrom(SubSeq(s, 2, Len(s)), c = "-")

CanonicalMIMEHeaderKey(name) == CanonicalFrom(name, TRUE)

NoHeaders == [n \in {} |-> ""]

\* http.Header.Set
HeaderSet(h, name, value) ==
    [n \in DOMAIN h \cup {CanonicalMIMEHeaderKey(name)} |->
        IF n = CanonicalMIMEHeaderKey(name) THEN value ELSE h[n]]

\* http.Header.Get: the empty string when the header is not there
HeaderGet(h, name) ==
    IF CanonicalMIMEHeaderKey(name) \in DOMAIN h THEN h[CanonicalMIMEHeaderKey(name)] ELSE ""

HeaderHas(h, name) == CanonicalMIMEHeaderKey(name) \in DOMAIN h

\* for k, v := range headers { req.Header.Set(k, v) }
RECURSIVE SetAll(_, _)
SetAll(h, headers) ==
    IF DOMAIN headers = {} THEN h
    ELSE LET k == CHOOSE n \in DOMAIN headers : TRUE IN
         SetAll(HeaderSet(h, k, headers[k]), [n \in DOMAIN headers \ {k} |-> headers[n]])

\* time.Now().UTC().Format(http.TimeFormat) at clock reading t
httpDate(t) == "Thu, 01 Jan 1970 00:00:0" \o ToString(t) \o " GMT"

Md5Hex(bytes) == "md5(" \o bytes \o ")"

HmacSha256(key, message) == "hmac(" \o key \o "," \o message \o ")"

Base64(digest) == "b64[" \o digest \o "]"

\* fmt.Sprintf("%s\n%s\n%s\n%s\n%s", ...) of Client.sign
StringToSign(method, path, contentMD5, contentType, date) ==
    ToUpper(method) \o "\n" \o path \o "\n" \o contentMD5 \o "\n" \o contentType
        \o "\n" \o date

signKeepsCase(c, method, path, contentMD5, contentType, date) ==
    Base64(HmacSha256(c.accessKeySecret,
                      method \o "\n" \o path \o "\n" \o contentMD5 \o "\n" \o contentType
                          \o "\n" \o date))

signNoSeparators(c, method, path, contentMD5, contentType, date) ==
    Base64(HmacSha256(c.accessKeySecret,
                      ToUpper(method) \o path \o contentMD5 \o contentType \o date))

sign(c, method, path, contentMD5, contentType, date) ==
    Base64(HmacSha256(c.accessKeySecret,
                      StringToSign(method, path, contentMD5, contentType, date)))

\* newClient, as NewTranslator calls it
newClient(accessKeyID, accessKeySecret) ==
    [accessKeyID |-> accessKeyID, accessKeySecret |-> accessKeySecret,
     sdkName |-> "lara-go", sdkVersion |-> "1.0.3"]

\* a *Credentials: nil, or the result of NewCredentials
NilCredentials == [isNil |-> TRUE, accessKeyID |-> "", accessKeySecret |-> ""]

NewCredentials(accessKeyID, accessKeySecret) ==
    [isNil |-> FALSE, accessKeyID |-> accessKeyID, accessKeySecret |-> accessKeySecret]

\* the client NewTranslator builds
NewTranslator(credentials) ==
    IF credentials.isNil
    THEN newClient(NewCredentials("", "").accessKeyID, NewCredentials("", "").accessKeySecret)
    ELSE newClient(credentials.accessKeyID, credentials.accessKeySecret)

\* json.Marshal of a serializable body, the bytes of an attachment, the
\* boundary multipart.NewWriter draws
JsonBytes == "{\"q\":\"hello\"}"
FileBytes == "a,b"
Boundary == "4f2a"

FilePart == [name |-> "file", filename |-> "file", data |-> FileBytes]
JsonField == [name |-> "json", filename |-> "", data |-> JsonBytes]

RECURSIVE MultipartBytes(_)
MultipartBytes(parts) ==
    IF parts = <<>> THEN "--" \o Boundary \o "--"
    ELSE "--" \o Boundary \o ";name=" \o Head(parts).name \o ";filename="
             \o Head(parts).filename \o ";" \o Head(parts).data \o ";"
             \o MultipartBytes(Tail(parts))

SelectBodyJsonFirst(body, files) ==
    IF body # "nil"
    THEN [kind |-> "json", parts |-> <<>>, bytes |-> JsonBytes,
          contentType |-> "application/json", contentMD5 |-> Md5Hex(JsonBytes)]
    ELSE IF files # "none"
    THEN [kind |-> "multipart", parts |-> <<FilePart>>, bytes |-> MultipartBytes(<<FilePart>>),
          contentType |-> "multipart/form-data; boundary=" \o Boundary,
          contentMD5 |-> Md5Hex(MultipartBytes(<<FilePart>>))]
    ELSE [kind |-> "none", parts |-> <<>>, bytes |-> "", contentType |-> "", contentMD5 |-> ""]

\* the body, contentType and contentMD5 of a request that is prepared
\* without failure
SelectBody(body, files) ==
    IF files # "none"
    THEN LET parts == IF body # "nil" THEN <<FilePart, JsonField>> ELSE <<FilePart>> IN
         [kind |-> "multipart", parts |-> parts, bytes |-> MultipartBytes(parts),
          contentType |-> "multipart/form-data; boundary=" \o Boundary,
          contentMD5 |-> Md5Hex(MultipartBytes(parts))]
    ELSE IF body # "nil"
    THEN [kind |-> "json", parts |-> <<>>, bytes |-> JsonBytes,
          contentType |-> "application/json", contentMD5 |-> Md5Hex(JsonBytes)]
    ELSE [kind |-> "none", parts |-> <<>>, bytes |-> "", contentType |-> "", contentMD5 |-> ""]

NormalPath(path) == IF HasPrefix(path, "/") THEN path ELSE "/" \o path

\* the headers request sets itself, before the caller's
FixedHeaders(c, method, t, sel) ==
    LET h1 == HeaderSet(NoHeaders, "X-HTTP-Method-Override", method)
        h2 == HeaderSet(h1, "Date", httpDate(t))
        h3 == HeaderSet(h2, "X-Lara-SDK-Name", c.sdkName)
        h4 == HeaderSet(h3, "X-Lara-SDK-Version", c.sdkVersion)
        h5 == IF sel.contentType # "" THEN HeaderSet(h4, "Content-Type", sel.contentType) ELSE h4
    IN IF sel.contentMD5 # "" THEN HeaderSet(h5, "Content-MD5", sel.contentMD5) ELSE h5

SignsWithEither(c) == c.accessKeyID # "" \/ c.accessKeySecret # ""

\* whether request signs
Signs(c) == c.accessKeyID # "" /\ c.accessKeySecret # ""

SignedDateFromClock(h, t) == httpDate(t)

\* the date request passes to sign
SignedDate(h, t) == HeaderGet(h, "Date")

NoWire ==
    [sent |-> FALSE, call |-> [method |-> "", path |-> "", body |-> "nil", files |-> "none",
                               headers |-> NoHeaders, t |-> 0],
     method |-> "", path |-> "", headers |-> NoHeaders, fixed |-> NoHeaders,
     body |-> SelectBody("nil", "none"), signed |-> FALSE, signedDate |-> "",
     signature |-> "", err |-> NoErr]

\* Client.request up to c.httpClient.Do(req): the request handed to the
\* transport, or the failure to prepare it.  t is the clock reading.
\*   fixed      the headers after request has set its own,
\*   headers    the headers transmitted,
\*   signed, signedDate, signature   whether sign was called, the date it
\*              was given, and its result.
BuildRequest(c, method, path, body, files, headers, t) ==
    LET call == [method |-> method, path |-> path, body |-> body, files |-> files,
                 headers |-> headers, t |-> t]
        sel == SelectBody(body, files)
        fixed == FixedHeaders(c, method, t, sel)
        h == SetAll(fixed, headers)
        signature == sign(c, method, NormalPath(path), sel.contentMD5, sel.contentType,
                          SignedDate(h, t))
    IN IF PrepareError(TRUE, body, files) # NoErr
       THEN [NoWire EXCEPT !.call = call, !.err = PrepareError(TRUE, body, files)]
       ELSE [sent |-> TRUE, call |-> call, method |-> method, path |-> NormalPath(path),
             headers |-> IF Signs(c)
                         THEN HeaderSet(h, "Authorization",
                                        "Lara " \o c.accessKeyID \o ":" \o signature)
                         ELSE h,
             fixed |-> fixed, body |-> sel, signed |-> Signs(c),
             signedDate |-> IF Signs(c) THEN SignedDate(h, t) ELSE "",
             signature |-> IF Signs(c) THEN signature ELSE "", err |-> NoErr]

(***************************************************************************)
(* Translation.UnmarshalJSON.  A JSON value is a record                    *)
(*   kind    "string", "null", "number", "bool", "object" or "array",      *)
(*   str     the text of a string, or the member "text" of an object,      *)
(*   flag    the member "translatable" of an object,                       *)
(*   textOk  whether the member "text" of an object is a JSON string,      *)
(*   elems   the elements of an array.                                     *)
(* A Translation is its three fields: String (a *string: isNil, value),    *)
(* Strings and TextBlocks (slices: isNil, items).                          *)
(***************************************************************************)
JsonString(s) ==
    [kind |-> "string", str |-> s, flag |-> FALSE, textOk |-> TRUE, elems |-> <<>>]

JsonNull == [kind |-> "null", str |-> "", flag |-> FALSE, textOk |-> TRUE, elems |-> <<>>]

JsonNumber == [kind |-> "number", str |-> "", flag |-> FALSE, textOk |-> TRUE, elems |-> <<>>]

JsonBool == [kind |-> "bool", str |-> "", flag |-> FALSE, textOk |-> TRUE, elems |-> <<>>]

JsonObject(text, translatable, textOk) ==
    [kind |-> "object", str |-> text, flag |-> translatable, textOk |-> textOk, elems |-> <<>>]

JsonArray(elems) ==
    [kind |-> "array", str |-> "", flag |-> FALSE, textOk |-> TRUE, elems |-> elems]

\* the zero Translation
NoTranslation ==
    [String |-> [isNil |-> TRUE, value |-> ""],
     Strings |-> [isNil |-> TRUE, items |-> <<>>],
     TextBlocks |-> [isNil |-> TRUE, items |-> <<>>]]

\* json.Unmarshal into a string: a JSON string is stored, null leaves the
\* string as it is, anything else is a type error
IntoString(v) ==
    IF v.kind = "string" THEN [ok |-> TRUE, val |-> v.str]
    ELSE IF v.kind = "null" THEN [ok |-> TRUE, val |-> ""]
    ELSE [ok |-> FALSE, val |-> ""]

\* json.Unmarshal into a TextBlock: the members of an object are stored, null
\* leaves the struct as it is
IntoTextBlock(v) ==
    IF v.kind = "object" /\ v.textOk
    THEN [ok |-> TRUE, val |-> [Text |-> v.str, Translatable |-> v.flag]]
    ELSE IF v.kind = "null"
    THEN [ok |-> TRUE, val |-> [Text |-> "", Translatable |-> FALSE]]
    ELSE [ok |-> FALSE, val |-> [Text |-> "", Translatable |-> FALSE]]

\* var singleString string; json.Unmarshal(data, &singleString)
SingleString(data) == IntoString(data)

\* var stringSlice []string; json.Unmarshal(data, &stringSlice): an array
\* gives a slice of its elements, null leaves the slice nil
StringSlice(data) ==
    IF data.kind = "array"
    THEN [ok |-> \A i \in 1..Len(data.elems) : IntoString(data.elems[i]).ok,
          isNil |-> FALSE,
          items |-> [i \in 1..Len(data.elems) |-> IntoString(data.elems[i]).val]]
    ELSE [ok |-> data.kind = "null", isNil |-> TRUE, items |-> <<>>]

\* var textBlocks []TextBlock; json.Unmarshal(data, &textBlocks)
TextBlocks(data) ==
    IF data.kind = "array"
    THEN [ok |-> \A i \in 1..Len(data.elems) : IntoTextBlock(data.elems[i]).ok,
          isNil |-> FALSE,
          items |-> [i \in 1..Len(data.elems) |-> IntoTextBlock(data.elems[i]).val]]
    ELSE [ok |-> data.kind = "null", isNil |-> TRUE, items |-> <<>>]

\* the method on the Translation t: the Translation afterwards and the error
UnmarshalJSON(t, data) ==
    IF SingleString(data).ok
    THEN [t |-> [t EXCEPT !.String = [isNil |-> FALSE, value |-> SingleString(data).val]],
          err |-> NoErr]
    ELSE IF StringSlice(data).ok
    THEN [t |-> [t EXCEPT !.Strings = [isNil |-> StringSlice(data).isNil,
                                       items |-> StringSlice(data).items]],
          err |-> NoErr]
    ELSE IF TextBlocks(data).ok
    THEN [t |-> [t EXCEPT !.TextBlocks = [isNil |-> TextBlocks(data).isNil,
                                          items |-> TextBlocks(data).items]],
          err |-> NoErr]
    ELSE [t |-> t, err |-> ErrorString("translation: unsupported data type")]

(***************************************************************************)
(* State.                                                                  *)
(*   op        the operation the caller invoked ("none" before the call)   *)
(*   pc        the position in it: "idle", the poller's "test",            *)
(*             "deadline", "sleep", "fetch", "callback", and "done"        *)
(*   now       the clock, in seconds                                       *)
(*   start, current, hasMaxWait, maxWaitTime, updateCallback               *)
(*             the poller's locals and parameters (updateCallback: whether *)
(*             a callback was supplied)                                    *)
(*   initial   the job record the caller passed                            *)
(*   fetchIds  the identifiers of the status fetches made, in order        *)
(*   fetched   the snapshots the successful status fetches returned        *)
(*   cbLog     the snapshots the callback was invoked with                 *)
(*   sleeps    the number of sleeps made                                   *)
(*   req, out  the last request descriptor given to a verb and the verb's  *)
(*             result                                                      *)
(*   ret       what the operation returned to its caller                   *)
(***************************************************************************)
VARIABLES op, pc, now, start, current, hasMaxWait, maxWaitTime, updateCallback,
          initial, fetchIds, fetched, cbLog, sleeps, req, out, ret,
          callerRecord, currentRef,
          client, wire, signLog, translate,
          waits, frames, served, decoding

vars == <<op, pc, now, start, current, hasMaxWait, maxWaitTime, updateCallback,
          initial, fetchIds, fetched, cbLog, sleeps, req, out, ret,
          callerRecord, currentRef,
          client, wire, signLog, translate,
          waits, frames, served, decoding>>

\* the state of the calls of Spec
callVars == <<op, pc, now, start, current, hasMaxWait, maxWaitTime, updateCallback,
              initial, fetchIds, fetched, cbLog, sleeps, req, out, ret,
              callerRecord, currentRef>>

\* the state of the construction of requests: the client, the last request
\* built and the calls of sign made
requestVars == <<client, wire, signLog>>

\* the state of waits that run concurrently: each waiter's call (waits),
\* the stack frames that hold the variable current (frames) and the number
\* of status requests the server has answered for each job (served)
concurrentVars == <<waits, frames, served>>

\* decoding is the call of Translation.UnmarshalJSON: where it is, its
\* argument data, the Translation before and after it, and its error

\* what the calls of Spec other than TranslateWithOptions leave as it is
sideVars == <<requestVars, translate, concurrentVars, decoding>>

\* the frame of a call of TranslateWithOptions: where it is ("none" when
\* there is no such call, "wait" while waitForTranslation runs for it),
\* the requests it has issued itself, and what it returned
NoTranslate == [pc |-> "none", requests |-> <<>>, stream |-> FALSE, err |-> NoErr]

\* no call of Translation.UnmarshalJSON has been made
NoDecoding ==
    [pc |-> "idle", data |-> JsonNull, before |-> NoTranslation, t |-> NoTranslation,
     err |-> NoErr]

\* callerRecord is the record the caller passed to the poller, as it is now
\* (initial is what it was at the call); currentRef is where the poller's
\* variable current is: "caller" (it points to the caller's record), "local"
\* (a copy in the poller's frame) or "fetched" (it points to the record the
\* last status fetch returned)
pollerVars == <<start, current, hasMaxWait, maxWaitTime, updateCallback,
                initial, fetchIds, fetched, cbLog, sleeps, callerRecord, currentRef>>

NoReq == [verb |-> "", urlOk |-> TRUE, body |-> "nil", files |-> "none",
          beh |-> TransportError(""), dest |-> ""]

NoOut == [err |-> NoErr, val |-> ZeroValue, reqErr |-> NoErr,
          sent |-> FALSE, parsed |-> FALSE, decoded |-> FALSE, sends |-> 0]

NoRet == [val |-> ZeroValue, ok |-> FALSE, err |-> NoErr]

Waiters == {1, 2}

NoWait ==
    [op |-> "none", pc |-> "idle", start |-> 0, wake |-> 0, hasMaxWait |-> FALSE,
     maxWaitTime |-> 0, updateCallback |-> FALSE, initial |-> ZeroValue,
     fetchIds |-> <<>>, fetched |-> <<>>, cbLog |-> <<>>, ret |-> NoRet]

\* no call has been made
Idle ==
    /\ op = "none"
    /\ pc = "idle"
    /\ now = 0
    /\ start = 0
    /\ current = ZeroValue
    /\ hasMaxWait = FALSE
    /\ maxWaitTime = 0
    /\ updateCallback = FALSE
    /\ initial = ZeroValue
    /\ fetchIds = <<>>
    /\ fetched = <<>>
    /\ cbLog = <<>>
    /\ sleeps = 0
    /\ req = NoReq
    /\ out = NoOut
    /\ ret = NoRet
    /\ callerRecord = ZeroValue
    /\ currentRef = "none"

Init ==
    /\ Idle
    /\ client = NewTranslator(NilCredentials)
    /\ wire = NoWire
    /\ signLog = <<>>
    /\ translate = NoTranslate
    /\ waits = [w \in Waiters |-> NoWait]
    /\ frames = [w \in Waiters |-> ZeroValue]
    /\ served = [id \in Ids |-> 0]
    /\ decoding = NoDecoding

(***************************************************************************)
(* The pollers.                                                            *)
(***************************************************************************)
Pollers == {"Memories.WaitForImport", "Glossaries.WaitForImport", "Documents.waitForTranslation"}

\* the loop left as soon as the job is half done
CompleteAtHalf(o, snapshot) ==
    IF o = "Documents.waitForTranslation"
    THEN snapshot.status = DocumentStatusTranslated \/ snapshot.status = DocumentStatusError
    ELSE ~(snapshot.progress < 5)

\* the loop condition, negated
Complete(o, snapshot) ==
    IF o = "Documents.waitForTranslation"
    THEN snapshot.status = DocumentStatusTranslated \/ snapshot.status = DocumentStatusError
    ELSE ~(snapshot.progress < ProgressOne)

\* the deadline reached as soon as the elapsed time equals the maximum wait
ExpiredAtLimit(o, has, max, elapsed) ==
    IF o = "Documents.waitForTranslation"
    THEN max > 0 /\ elapsed >= max
    ELSE has /\ elapsed >= max

\* the deadline test; waitForTranslation's maxWaitTime is the zero Duration
Expired(o, has, max, elapsed) ==
    IF o = "Documents.waitForTranslation"
    THEN max > 0 /\ elapsed > max
    ELSE has /\ elapsed > max

TimeoutFailure(o) ==
    CASE o = "Memories.WaitForImport" -> ErrorString("timeout waiting for import to complete")
      [] o = "Glossaries.WaitForImport" ->
            ErrorString("timeout waiting for glossary import to complete")
      [] OTHER -> ErrorString("timeout waiting for translation to complete")

\* the status fetch of each poller
StatusFetch(o, beh) ==
    CASE o = "Memories.WaitForImport" -> MemoriesGetImportStatus(TRUE, beh)
      [] o = "Glossaries.WaitForImport" -> GlossariesGetImportStatus(TRUE, beh)
      [] OTHER -> DocumentsStatus(TRUE, beh)

\* StatusFetch tabulated over the behaviours a poller's server shows
FetchBehaviours(o) ==
    IF o = "Documents.waitForTranslation" THEN DocumentBehaviours ELSE ImportBehaviours

FetchResult == [o \in Pollers |-> [beh \in FetchBehaviours(o) |-> StatusFetch(o, beh)]]

\* what the poller returns for the error of a failed status fetch
FetchFailure(o, err) ==
    IF o = "Glossaries.WaitForImport"
    THEN Wrap("failed to get import status: ", err)
    ELSE err

EntryRefAliased(o) == "caller"

\* where current is after the poller's first statements: WaitForImport
\* copies the record (current := *memoryImport), waitForTranslation keeps
\* the pointer (current := document)
EntryRef(o) == IF o = "Documents.waitForTranslation" THEN "caller" ELSE "local"

\* where current is after the assignment of a fetched snapshot:
\* waitForTranslation rebinds the pointer (current = updated), WaitForImport
\* assigns the value (current = *updated)
AssignedRef(o, ref) == IF o = "Documents.waitForTranslation" THEN "fetched" ELSE ref

\* the caller's record after that assignment: the value assignment writes
\* the record current is in
AfterAssignment(o, ref, record, snapshot) ==
    IF o # "Documents.waitForTranslation" /\ ref = "caller" THEN snapshot ELSE record

WaitForImport(o, memoryImport, callback, has, max) ==
    /\ pc = "idle"
    /\ op' = o
    /\ pc' = "test"
    /\ start' = now
    /\ initial' = memoryImport
    /\ callerRecord' = memoryImport
    /\ currentRef' = EntryRef(o)
    /\ current' = memoryImport
    /\ updateCallback' = callback
    /\ hasMaxWait' = has
    /\ maxWaitTime' = max
    /\ UNCHANGED <<now, fetchIds, fetched, cbLog, sleeps, req, out, ret>>
    /\ UNCHANGED sideVars

\* waitForTranslation with a maximum wait of 3 seconds
StartWaitWithDeadline(document) ==
    /\ pc = "idle"
    /\ op' = "Documents.waitForTranslation"
    /\ pc' = "test"
    /\ start' = now
    /\ initial' = document
    /\ callerRecord' = document
    /\ currentRef' = EntryRef("Documents.waitForTranslation")
    /\ current' = document
    /\ updateCallback' = FALSE
    /\ hasMaxWait' = FALSE
    /\ maxWaitTime' = 3
    /\ UNCHANGED <<now, fetchIds, fetched, cbLog, sleeps, req, out, ret>>

\* the start of waitForTranslation, up to its loop
StartWait(document) ==
    /\ pc = "idle"
    /\ op' = "Documents.waitForTranslation"
    /\ pc' = "test"
    /\ start' = now
    /\ initial' = document
    /\ callerRecord' = document
    /\ currentRef' = EntryRef("Documents.waitForTranslation")
    /\ current' = document
    /\ updateCallback' = FALSE
    /\ hasMaxWait' = FALSE
    /\ maxWaitTime' = 0
    /\ UNCHANGED <<now, fetchIds, fetched, cbLog, sleeps, req, out, ret>>

waitForTranslation(document) ==
    /\ pc = "idle"
    /\ StartWait(document)
    /\ UNCHANGED sideVars

\* the deadline tested before the loop condition
LoopTestDeadlineFirst ==
    /\ pc = "test"
    /\ IF Expired(op, hasMaxWait, maxWaitTime, now - start)
       THEN /\ pc' = "done"
            /\ ret' = [val |-> current, ok |-> TRUE, err |-> TimeoutFailure(op)]
       ELSE IF Complete(op, current)
       THEN /\ pc' = "done"
            /\ ret' = [val |-> current, ok |-> TRUE, err |-> NoErr]
       ELSE /\ pc' = "deadline"
            /\ UNCHANGED ret
    /\ UNCHANGED <<op, now, pollerVars, req, out>>
    /\ UNCHANGED sideVars

\* for current.Progress < 1.0 { ... } return &current, nil
LoopTest ==
    /\ pc = "test"
    /\ IF Complete(op, current)
       THEN /\ pc' = "done"
            /\ ret' = [val |-> current, ok |-> TRUE, err |-> NoErr]
       ELSE /\ pc' = "deadline"
            /\ UNCHANGED ret
    /\ UNCHANGED <<op, now, pollerVars, req, out>>
    /\ UNCHANGED sideVars

\* the caller's record returned on timeout instead of the current snapshot
DeadlineTestReturnsInitial ==
    /\ pc = "deadline"
    /\ IF Expired(op, hasMaxWait, maxWaitTime, now - start)
       THEN /\ pc' = "done"
            /\ ret' = [val |-> initial, ok |-> TRUE, err |-> TimeoutFailure(op)]
       ELSE /\ pc' = "sleep"
            /\ UNCHANGED ret
    /\ UNCHANGED <<op, now, pollerVars, req, out>>
    /\ UNCHANGED sideVars

\* if maxWaitTime != nil && time.Since(start) > *maxWaitTime { return ... }
DeadlineTest ==
    /\ pc = "deadline"
    /\ IF Expired(op, hasMaxWait, maxWaitTime, now - start)
       THEN /\ pc' = "done"
            /\ ret' = [val |-> current, ok |-> TRUE, err |-> TimeoutFailure(op)]
       ELSE /\ pc' = "sleep"
            /\ UNCHANGED ret
    /\ UNCHANGED <<op, now, pollerVars, req, out>>
    /\ UNCHANGED sideVars

\* time.Sleep(pollingInterval)
Sleep ==
    /\ pc = "sleep"
    /\ Len(fetchIds) < MaxFetches
    /\ now + PollInterval <= MaxTime
    /\ now' = now + PollInterval
    /\ sleeps' = sleeps + 1
    /\ pc' = "fetch"
    /\ UNCHANGED <<op, start, current, hasMaxWait, maxWaitTime, updateCallback,
                   initial, fetchIds, fetched, cbLog, req, out, ret,
                   callerRecord, currentRef>>
    /\ UNCHANGED sideVars

\* a failed status fetch retried instead of returned
FetchRetries ==
    /\ pc = "fetch"
    /\ \E beh \in FetchBehaviours(op) :
          LET r == FetchResult[op][beh] IN
          /\ fetchIds' = Append(fetchIds, current.id)
          /\ req' = [verb |-> "GET", urlOk |-> TRUE, body |-> "nil", files |-> "none",
                     beh |-> beh,
                     dest |-> IF op = "Documents.waitForTranslation"
                              THEN "Document" ELSE "Import"]
          /\ out' = r.out
          /\ IF r.err # NoErr
             THEN /\ pc' = "test"
                  /\ UNCHANGED <<current, fetched, ret, callerRecord, currentRef>>
             ELSE /\ pc' = IF op = "Documents.waitForTranslation" THEN "test" ELSE "callback"
                  /\ current' = r.val
                  /\ currentRef' = AssignedRef(op, currentRef)
                  /\ callerRecord' = AfterAssignment(op, currentRef, callerRecord, r.val)
                  /\ fetched' = Append(fetched, r.val)
                  /\ UNCHANGED ret
    /\ UNCHANGED <<op, now, start, hasMaxWait, maxWaitTime, updateCallback,
                   initial, cbLog, sleeps>>
    /\ UNCHANGED sideVars

\* updated, err := GetImportStatus(current.ID); if err != nil { return };
\* current = *updated
Fetch ==
    /\ pc = "fetch"
    /\ \E beh \in FetchBehaviours(op) :
          LET r == FetchResult[op][beh] IN
          /\ fetchIds' = Append(fetchIds, current.id)
          /\ req' = [verb |-> "GET", urlOk |-> TRUE, body |-> "nil", files |-> "none",
                     beh |-> beh,
                     dest |-> IF op = "Documents.waitForTranslation"
                              THEN "Document" ELSE "Import"]
          /\ out' = r.out
          /\ IF r.err # NoErr
             THEN /\ pc' = "done"
                  /\ ret' = [val |-> current, ok |-> TRUE, err |-> FetchFailure(op, r.err)]
                  /\ UNCHANGED <<current, fetched, callerRecord, currentRef>>
             ELSE /\ pc' = IF op = "Documents.waitForTranslation" THEN "test" ELSE "callback"
                  /\ current' = r.val
                  /\ currentRef' = AssignedRef(op, currentRef)
                  /\ callerRecord' = AfterAssignment(op, currentRef, callerRecord, r.val)
                  /\ fetched' = Append(fetched, r.val)
                  /\ UNCHANGED ret
    /\ UNCHANGED <<op, now, start, hasMaxWait, maxWaitTime, updateCallback,
                   initial, cbLog, sleeps>>
    /\ UNCHANGED sideVars

\* updateCallback(&current): what the callback is handed at each invocation
\* is the address of the poller's variable current
CallbackArgument == "&current"

\* what a pointer handed to the callback points to now
Pointee(pointer) == IF pointer = "&current" THEN current ELSE ZeroValue

\* the deadline tested again after the callback, before the loop condition
CallbackThenDeadline ==
    /\ pc = "callback"
    /\ cbLog' = IF updateCallback THEN Append(cbLog, current) ELSE cbLog
    /\ pc' = "deadline"
    /\ UNCHANGED <<op, now, start, current, hasMaxWait, maxWaitTime, updateCallback,
                   initial, fetchIds, fetched, sleeps, req, out, ret,
                   callerRecord, currentRef>>
    /\ UNCHANGED sideVars

\* the callback left out for the snapshot that completes the job
CallbackUnlessComplete ==
    /\ pc = "callback"
    /\ cbLog' = IF updateCallback /\ ~Complete(op, current) THEN Append(cbLog, current) ELSE cbLog
    /\ pc' = "test"
    /\ UNCHANGED <<op, now, start, current, hasMaxWait, maxWaitTime, updateCallback,
                   initial, fetchIds, fetched, sleeps, req, out, ret,
                   callerRecord, currentRef>>
    /\ UNCHANGED sideVars

\* if updateCallback != nil { updateCallback(&current) }
Callback ==
    /\ pc = "callback"
    /\ cbLog' = IF updateCallback THEN Append(cbLog, current) ELSE cbLog
    /\ pc' = "test"
    /\ UNCHANGED <<op, now, start, current, hasMaxWait, maxWaitTime, updateCallback,
                   initial, fetchIds, fetched, sleeps, req, out, ret,
                   callerRecord, currentRef>>
    /\ UNCHANGED sideVars

\* the clock advances while a wait is in progress
Tick ==
    /\ pc \in {"test", "deadline", "sleep", "fetch", "callback"}
    /\ now < MaxTime
    /\ now' = now + 1
    /\ UNCHANGED <<op, pc, pollerVars, req, out, ret>>
    /\ UNCHANGED sideVars

(***************************************************************************)
(* Single calls of the verbs and of the domain operations.                 *)
(***************************************************************************)
Finish(o, r, result, returned) ==
    /\ pc = "idle"
    /\ op' = o
    /\ pc' = "done"
    /\ req' = r
    /\ out' = result
    /\ ret' = returned
    /\ UNCHANGED <<now, pollerVars>>
    /\ UNCHANGED sideVars

VerbReturn(result) == [val |-> result.val, ok |-> result.err = NoErr, err |-> result.err]

ClientGet ==
    /\ pc = "idle"
    /\ \E urlOk \in BOOLEAN, beh \in Behaviours, dest \in Dests :
        Finish("Client.Get",
               [verb |-> "GET", urlOk |-> urlOk, body |-> "nil", files |-> "none",
                beh |-> beh, dest |-> dest],
               Get(urlOk, beh, dest), VerbReturn(Get(urlOk, beh, dest)))

ClientPost ==
    /\ pc = "idle"
    /\ \E urlOk \in BOOLEAN, body \in {"nil", "json", "unserializable"},
       files \in {"none", "readable", "unreadable"},
       beh \in Behaviours, dest \in Dests :
        Finish("Client.Post",
               [verb |-> "POST", urlOk |-> urlOk, body |-> body, files |-> files,
                beh |-> beh, dest |-> dest],
               Post(urlOk, body, files, beh, dest),
               VerbReturn(Post(urlOk, body, files, beh, dest)))

ClientPut ==
    /\ pc = "idle"
    /\ \E urlOk \in BOOLEAN, body \in {"nil", "json", "unserializable"},
       files \in {"none", "readable", "unreadable"},
       beh \in Behaviours, dest \in Dests :
        Finish("Client.Put",
               [verb |-> "PUT", urlOk |-> urlOk, body |-> body, files |-> files,
                beh |-> beh, dest |-> dest],
               Put(urlOk, body, files, beh, dest),
               VerbReturn(Put(urlOk, body, files, beh, dest)))

ClientDelete ==
    /\ pc = "idle"
    /\ \E urlOk \in BOOLEAN, body \in {"nil", "json", "unserializable"},
       beh \in Behaviours, dest \in Dests :
        Finish("Client.Delete",
               [verb |-> "DELETE", urlOk |-> urlOk, body |-> body, files |-> "none",
                beh |-> beh, dest |-> dest],
               Delete(urlOk, body, beh, dest),
               VerbReturn(Delete(urlOk, body, beh, dest)))

ClientGetRaw ==
    /\ pc = "idle"
    /\ \E urlOk \in BOOLEAN, beh \in Behaviours :
        Finish("Client.GetRaw",
               [verb |-> "GET", urlOk |-> urlOk, body |-> "nil", files |-> "none",
                beh |-> beh, dest |-> "bytes"],
               GetRaw(urlOk, beh), VerbReturn(GetRaw(urlOk, beh)))

DomainReturn(r) == [val |-> r.val, ok |-> r.ok, err |-> r.err]

Translate ==
    /\ pc = "idle"
    /\ \E urlOk \in BOOLEAN, beh \in Behaviours :
        LET r == TranslatorTranslate(urlOk, beh) IN
        Finish("Translator.Translate",
               [verb |-> "POST", urlOk |-> urlOk, body |-> "json", files |-> "none",
                beh |-> beh, dest |-> "TextResult"],
               r.out, DomainReturn(r))

MemoriesServiceGet ==
    /\ pc = "idle"
    /\ \E urlOk \in BOOLEAN, beh \in Behaviours :
        LET r == MemoriesGet(urlOk, beh) IN
        Finish("Memories.Get",
               [verb |-> "GET", urlOk |-> urlOk, body |-> "nil", files |-> "none",
                beh |-> beh, dest |-> "Memory"],
               r.out, DomainReturn(r))

GlossariesServiceGet ==
    /\ pc = "idle"
    /\ \E urlOk \in BOOLEAN, beh \in Behaviours :
        LET r == GlossariesGet(urlOk, beh) IN
        Finish("Glossaries.Get",
               [verb |-> "GET", urlOk |-> urlOk, body |-> "nil", files |-> "none",
                beh |-> beh, dest |-> "Glossary"],
               r.out, DomainReturn(r))

(***************************************************************************)
(* DocumentsService.TranslateWithOptions: upload, wait, download.          *)
(***************************************************************************)
UploadUrlEnvelope ==
    [raw |-> "{\"content\":{\"url\":\"https://s3/up\",\"fields\":{\"key\":\"k\"}}}",
     form |-> "object", wellTyped |-> TRUE, status |-> 0, etype |-> "", emsg |-> "",
     content |-> [cform |-> "object", obj |-> ZeroValue]]

DownloadUrlEnvelope ==
    [raw |-> "{\"content\":{\"url\":\"https://s3/down\"}}",
     form |-> "object", wellTyped |-> TRUE, status |-> 0, etype |-> "", emsg |-> "",
     content |-> [cform |-> "object", obj |-> ZeroValue]]

\* S3Client.Upload, by the status of the object store's response
S3Upload(status) ==
    IF status >= 400
    THEN ErrorString("upload failed with status " \o ToString(status))
    ELSE NoErr

\* S3Client.Download: the stream (whether there is one) and the error
S3Download(status) ==
    IF status >= 400
    THEN [stream |-> FALSE, err |-> ErrorString("download failed with status "
                                                    \o ToString(status))]
    ELSE [stream |-> TRUE, err |-> NoErr]

\* UploadWithOptions: the document, the error and the requests issued
UploadWithOptions(behUrl, s3Status, behCreate) ==
    IF Get(TRUE, behUrl, "UploadUrl").err # NoErr
    THEN [val |-> ZeroValue,
          err |-> Wrap("failed to get upload URL: ", Get(TRUE, behUrl, "UploadUrl").err),
          requests |-> <<"GET /documents/upload-url">>]
    ELSE IF S3Upload(s3Status) # NoErr
    THEN [val |-> ZeroValue,
          err |-> Wrap("failed to upload file to S3: ", S3Upload(s3Status)),
          requests |-> <<"GET /documents/upload-url", "S3 upload">>]
    ELSE LET p == Post(TRUE, "json", "none", behCreate, "Document") IN
         [val |-> p.val,
          err |-> IF p.err # NoErr THEN Wrap("failed to create document: ", p.err) ELSE NoErr,
          requests |-> <<"GET /documents/upload-url", "S3 upload", "POST /documents">>]

\* DownloadWithOptions: the stream, the error and the requests issued
DownloadWithOptions(behUrl, s3Status) ==
    IF Get(TRUE, behUrl, "DownloadUrl").err # NoErr
    THEN [stream |-> FALSE,
          err |-> Wrap("failed to get download URL: ", Get(TRUE, behUrl, "DownloadUrl").err),
          requests |-> <<"GET /documents/download-url">>]
    ELSE [stream |-> S3Download(s3Status).stream, err |-> S3Download(s3Status).err,
          requests |-> <<"GET /documents/download-url", "S3 download">>]

AfterWaitIgnoresStatus(waited, behUrl, s3Status) ==
    IF waited.err # NoErr
    THEN [stream |-> FALSE, err |-> Wrap("failed to wait for translation: ", waited.err),
          requests |-> <<>>]
    ELSE DownloadWithOptions(behUrl, s3Status)

\* TranslateWithOptions after waitForTranslation has returned waited
AfterWait(waited, behUrl, s3Status) ==
    IF waited.err # NoErr
    THEN [stream |-> FALSE, err |-> Wrap("failed to wait for translation: ", waited.err),
          requests |-> <<>>]
    ELSE IF waited.val.status = DocumentStatusError
    THEN [stream |-> FALSE,
          err |-> ErrorString("document translation failed: "
                                  \o (IF waited.val.reason # "" THEN waited.val.reason
                                      ELSE "translation failed")),
          requests |-> <<>>]
    ELSE DownloadWithOptions(behUrl, s3Status)

S3Statuses == {200, 403}

UploadUrlBehaviours ==
    {Response(200, UploadUrlEnvelope), Response(500, TextBody("Internal Server Error"))}

CreateBehaviours ==
    {Response(200, DocumentEnvelope(d.id, d.status, d.reason)) : d \in Documents}
        \cup {Response(400, ErrorEnvelope(400, "BadRequest", "bad"))}

DownloadUrlBehaviours ==
    {Response(200, DownloadUrlEnvelope), Response(404, ErrorEnvelope(404, "NotFound", "nope"))}

\* the call up to the loop of waitForTranslation, or to its return when the
\* upload fails
TranslateWithOptions ==
    /\ pc = "idle"
    /\ translate.pc = "none"
    /\ \E behUrl \in UploadUrlBehaviours, s3Status \in S3Statuses,
          behCreate \in CreateBehaviours :
          LET u == UploadWithOptions(behUrl, s3Status, behCreate) IN
          IF u.err # NoErr
          THEN /\ op' = "Documents.TranslateWithOptions"
               /\ pc' = "done"
               /\ translate' = [pc |-> "done", requests |-> u.requests, stream |-> FALSE,
                                err |-> Wrap("failed to upload document: ", u.err)]
               /\ UNCHANGED <<now, pollerVars, req, out, ret>>
          ELSE /\ StartWait(u.val)
               /\ translate' = [pc |-> "wait", requests |-> u.requests, stream |-> FALSE,
                                err |-> NoErr]
    /\ UNCHANGED <<requestVars, concurrentVars, decoding>>

\* the call from the return of waitForTranslation to its own return
TranslateAfterWait ==
    /\ translate.pc = "wait"
    /\ pc = "done"
    /\ \E behUrl \in DownloadUrlBehaviours, s3Status \in S3Statuses :
          LET a == AfterWait(ret, behUrl, s3Status) IN
          translate' = [pc |-> "done", requests |-> translate.requests \o a.requests,
                        stream |-> a.stream, err |-> a.err]
    /\ UNCHANGED <<callVars, requestVars, concurrentVars, decoding>>

Next ==
    \/ \E o \in {"Memories.WaitForImport", "Glossaries.WaitForImport"},
          memoryImport \in Imports, callback \in BOOLEAN,
          has \in BOOLEAN, max \in MaxWaits :
            WaitForImport(o, memoryImport, callback, has, max)
    \/ \E document \in Documents : waitForTranslation(document)
    \/ LoopTest
    \/ DeadlineTest
    \/ Sleep
    \/ Fetch
    \/ Callback
    \/ Tick
    \/ ClientGet
    \/ ClientPost
    \/ ClientPut
    \/ ClientDelete
    \/ ClientGetRaw
    \/ Translate
    \/ MemoriesServiceGet
    \/ GlossariesServiceGet
    \/ TranslateWithOptions
    \/ TranslateAfterWait

Spec == Init /\ [][Next]_vars

(***************************************************************************)
(* Concurrent waits: two callers wait on one translator, each for its own  *)
(* job; their steps interleave in every order.  The server answers the     *)
(* k-th status request for a job with the k-th entry of the job's script.  *)
(***************************************************************************)
FrameShared(w) == 1

\* the frame that holds the variable current of waiter w: the one of its
\* own call
FrameOf(w) == w

JobOf(w) == IF w = 1 THEN "i1" ELSE "i2"

\* the record waiter w passes to the poller o
JobRecord(o, w) ==
    IF o = "Documents.waitForTranslation"
    THEN Document(JobOf(w), "translating", "")
    ELSE Import(JobOf(w), 0)

\* the server's answer to the k-th status request for the job id
ServerScript(o, id, k) ==
    IF o = "Documents.waitForTranslation"
    THEN IF k = 1 THEN Response(200, DocumentEnvelope(id, "translating", ""))
         ELSE IF id = "i1" THEN Response(200, DocumentEnvelope(id, DocumentStatusTranslated, ""))
         ELSE Response(200, DocumentEnvelope(id, DocumentStatusError, "bad file"))
    ELSE IF k = 1 THEN Response(200, ImportEnvelope(id, 5))
         ELSE IF id = "i1" THEN Response(200, ImportEnvelope(id, ProgressOne))
         ELSE Response(500, TextBody("Internal Server Error"))

Running(w) == waits[w].pc \notin {"idle", "done"}

restVars == <<op, pc, pollerVars, req, out, ret>>

ConcurrentStart(w) ==
    /\ waits[w].pc = "idle"
    /\ \E o \in Pollers, has \in BOOLEAN, callback \in BOOLEAN :
          /\ o = "Documents.waitForTranslation" => (~has /\ ~callback)
          /\ waits' = [waits EXCEPT ![w] =
                          [NoWait EXCEPT !.op = o, !.pc = "test", !.start = now,
                                         !.hasMaxWait = has,
                                         !.maxWaitTime = IF has THEN 3 ELSE 0,
                                         !.updateCallback = callback,
                                         !.initial = JobRecord(o, w)]]
          /\ frames' = [frames EXCEPT ![FrameOf(w)] = JobRecord(o, w)]
    /\ UNCHANGED <<served, now, restVars, requestVars, translate, decoding>>

ConcurrentLoopTest(w) ==
    /\ waits[w].pc = "test"
    /\ LET f == waits[w] IN
       waits' = [waits EXCEPT ![w] =
                    IF Complete(f.op, frames[FrameOf(w)])
                    THEN [f EXCEPT !.pc = "done",
                                   !.ret = [val |-> frames[FrameOf(w)], ok |-> TRUE,
                                            err |-> NoErr]]
                    ELSE [f EXCEPT !.pc = "deadline"]]
    /\ UNCHANGED <<frames, served, now, restVars, requestVars, translate, decoding>>

ConcurrentDeadlineTest(w) ==
    /\ waits[w].pc = "deadline"
    /\ LET f == waits[w] IN
       waits' = [waits EXCEPT ![w] =
                    IF Expired(f.op, f.hasMaxWait, f.maxWaitTime, now - f.start)
                    THEN [f EXCEPT !.pc = "done",
                                   !.ret = [val |-> frames[FrameOf(w)], ok |-> TRUE,
                                            err |-> TimeoutFailure(f.op)]]
                    ELSE [f EXCEPT !.pc = "sleep", !.wake = now + PollInterval]]
    /\ UNCHANGED <<frames, served, now, restVars, requestVars, translate, decoding>>

\* time.Sleep returns, no sooner than the interval after it was called
ConcurrentSleep(w) ==
    /\ waits[w].pc = "sleep"
    /\ Len(waits[w].fetchIds) < MaxFetches
    /\ now >= waits[w].wake
    /\ waits' = [waits EXCEPT ![w] = [@ EXCEPT !.pc = "fetch", !.wake = 0]]
    /\ UNCHANGED <<frames, served, now, restVars, requestVars, translate, decoding>>

ConcurrentFetch(w) ==
    /\ waits[w].pc = "fetch"
    /\ LET o == waits[w].op
           id == frames[FrameOf(w)].id
           r == FetchResult[o][ServerScript(o, id, served[id] + 1)]
       IN /\ served' = [served EXCEPT ![id] = @ + 1]
          /\ IF r.err # NoErr
             THEN /\ waits' = [waits EXCEPT ![w] =
                                 [@ EXCEPT !.fetchIds = Append(waits[w].fetchIds, id),
                                           !.pc = "done",
                                           !.ret = [val |-> frames[FrameOf(w)], ok |-> TRUE,
                                                    err |-> FetchFailure(o, r.err)]]]
                  /\ UNCHANGED frames
             ELSE /\ waits' = [waits EXCEPT ![w] =
                                 [@ EXCEPT !.fetchIds = Append(waits[w].fetchIds, id),
                                           !.fetched = Append(waits[w].fetched, r.val),
                                           !.pc = IF o = "Documents.waitForTranslation"
                                                  THEN "test" ELSE "callback"]]
                  /\ frames' = [frames EXCEPT ![FrameOf(w)] = r.val]
    /\ UNCHANGED <<now, restVars, requestVars, translate, decoding>>

ConcurrentCallback(w) ==
    /\ waits[w].pc = "callback"
    /\ LET f == waits[w] IN
       waits' = [waits EXCEPT ![w] =
                    [f EXCEPT !.pc = "test",
                              !.cbLog = IF f.updateCallback
                                        THEN Append(f.cbLog, frames[FrameOf(w)])
                                        ELSE f.cbLog]]
    /\ UNCHANGED <<frames, served, now, restVars, requestVars, translate, decoding>>

ConcurrentTick ==
    /\ \E w \in Waiters : Running(w)
    /\ now < MaxTime
    /\ now' = now + 1
    /\ UNCHANGED <<concurrentVars, restVars, requestVars, translate, decoding>>

NextConcurrent ==
    \/ \E w \in Waiters : ConcurrentStart(w)
    \/ \E w \in Waiters : ConcurrentLoopTest(w)
    \/ \E w \in Waiters : ConcurrentDeadlineTest(w)
    \/ \E w \in Waiters : ConcurrentSleep(w)
    \/ \E w \in Waiters : ConcurrentFetch(w)
    \/ \E w \in Waiters : ConcurrentCallback(w)
    \/ ConcurrentTick

SpecConcurrent == Init /\ [][NextConcurrent]_vars

(***************************************************************************)
(* The construction of requests: a translator is built with some           *)
(* credentials, and then either one request is built by one of the verbs,  *)
(* or sign is called twice, possibly with a request in between.            *)
(***************************************************************************)
MaxSigns == 2

CredentialChoices ==
    {NilCredentials} \cup {NewCredentials(k, s) : k \in {"", "key"}, s \in {"", "secret"}}

ClockReadings == {1, 2}

Paths == {"/memories", "memories/i1"}

CallerDate == "Mon, 02 Jan 2006 15:04:05 GMT"

\* the extra headers a caller passes
CallerHeaders ==
    {NoHeaders,
     "X-No-Trace" :> "true",
     "Date" :> CallerDate,
     "date" :> "",
     "Authorization" :> "Bearer caller",
     "authorization" :> "Bearer caller",
     "Content-Type" :> "text/plain",
     "content-md5" :> "00",
     ("Date" :> CallerDate) @@ ("Authorization" :> "Bearer caller")
         @@ ("X-Lara-SDK-Name" :> "mine") @@ ("X-HTTP-Method-Override" :> "PATCH")}

BodyChoices == {"nil", "json", "unserializable"}

FileChoices == {"none", "readable", "unreadable"}

\* the arguments sign is called with: each field empty or not
SignTokens == {"", "x"}

SignInputs ==
    [method : {"GET", "get", "PUT"}, path : SignTokens, contentMD5 : SignTokens,
     contentType : SignTokens, date : SignTokens]

InitRequest ==
    /\ Idle
    /\ \E credentials \in CredentialChoices : client = NewTranslator(credentials)
    /\ wire = NoWire
    /\ signLog = <<>>
    /\ translate = NoTranslate
    /\ waits = [w \in Waiters |-> NoWait]
    /\ frames = [w \in Waiters |-> ZeroValue]
    /\ served = [id \in Ids |-> 0]
    /\ decoding = NoDecoding

Transmit(method, path, body, files, headers, t) ==
    /\ wire' = BuildRequest(client, method, path, body, files, headers, t)
    /\ UNCHANGED <<client, signLog, translate, callVars, concurrentVars, decoding>>

SendGet ==
    /\ wire = NoWire /\ signLog = <<>>
    /\ \E path \in Paths, headers \in CallerHeaders, t \in ClockReadings :
        Transmit("GET", path, "nil", "none", headers, t)

SendPost ==
    /\ wire = NoWire /\ signLog = <<>>
    /\ \E path \in Paths, body \in BodyChoices, files \in FileChoices,
          headers \in CallerHeaders, t \in ClockReadings :
        Transmit("POST", path, body, files, headers, t)

SendPut ==
    /\ wire = NoWire /\ signLog = <<>>
    /\ \E path \in Paths, body \in BodyChoices, files \in FileChoices,
          headers \in CallerHeaders, t \in ClockReadings :
        Transmit("PUT", path, body, files, headers, t)

SendDelete ==
    /\ wire = NoWire /\ signLog = <<>>
    /\ \E path \in Paths, body \in BodyChoices, headers \in CallerHeaders,
          t \in ClockReadings :
        Transmit("DELETE", path, body, "none", headers, t)

\* what a call of c.sign does, for every client and every choice of
\* arguments: the string it signs and the signature it returns
SignResult ==
    [c \in {NewTranslator(credentials) : credentials \in CredentialChoices} |->
        [in \in SignInputs |->
            [in |-> in,
             string |-> StringToSign(in.method, in.path, in.contentMD5, in.contentType,
                                     in.date),
             signature |-> sign(c, in.method, in.path, in.contentMD5, in.contentType,
                                in.date)]]]

\* a direct call of c.sign; the log keeps its arguments, the string it
\* signs and its result
SignCall ==
    /\ Len(signLog) < MaxSigns
    /\ Len(signLog) = 0 => wire = NoWire
    /\ \E in \in SignInputs : signLog' = Append(signLog, SignResult[client][in])
    /\ UNCHANGED <<client, wire, translate, callVars, concurrentVars, decoding>>

\* a request made between two calls of sign
RequestBetween ==
    /\ Len(signLog) = 1 /\ wire = NoWire
    /\ \E body \in {"nil", "json"}, t \in ClockReadings :
        Transmit("POST", "/memories", body, "none", NoHeaders, t)

NextRequest ==
    \/ SendGet
    \/ SendPost
    \/ SendPut
    \/ SendDelete
    \/ SignCall
    \/ RequestBetween

SpecRequest == InitRequest /\ [][NextRequest]_vars

(***************************************************************************)
(* The waits for an import under fair scheduling: the call runs on (its    *)
(* tests, its sleep and its callback return), each status fetch returns,   *)
(* and the clock runs no further than a sleep can still end within MaxTime.*)
(***************************************************************************)
LiveStart ==
    /\ op = "none"
    /\ \E o \in {"Memories.WaitForImport", "Glossaries.WaitForImport"},
          memoryImport \in Imports, callback \in BOOLEAN,
          has \in BOOLEAN, max \in MaxWaits :
            WaitForImport(o, memoryImport, callback, has, max)

LiveTick ==
    /\ pc = "sleep" => now + 1 + PollInterval <= MaxTime
    /\ Tick

NextLive ==
    \/ LiveStart
    \/ LoopTest
    \/ DeadlineTest
    \/ Sleep
    \/ Fetch
    \/ Callback
    \/ LiveTick

Fairness ==
    /\ WF_vars(LoopTest)
    /\ WF_vars(DeadlineTest)
    /\ WF_vars(Sleep)
    /\ WF_vars(Fetch)
    /\ WF_vars(Callback)

SpecLive == Init /\ [][NextLive]_vars /\ Fairness

(***************************************************************************)
(* Calls of Translation.UnmarshalJSON on the JSON values json.Unmarshal    *)
(* can hand to it, for a Translation that is zero or was decoded into      *)
(* before.                                                                 *)
(***************************************************************************)
MaxElems == 2

JsonElements ==
    {JsonString("a"), JsonString(""), JsonNull, JsonNumber,
     JsonObject("a", TRUE, TRUE), JsonObject("a", TRUE, FALSE)}

JsonValues ==
    {JsonString("hello"), JsonString(""), JsonNull, JsonNumber, JsonBool,
     JsonObject("a", TRUE, TRUE)}
        \cup {JsonArray(elems) : elems \in UNION {[1..n -> JsonElements] : n \in 0..MaxElems}}

Translations ==
    {NoTranslation,
     [NoTranslation EXCEPT !.String = [isNil |-> FALSE, value |-> "old"]],
     [NoTranslation EXCEPT !.Strings = [isNil |-> FALSE, items |-> <<"old">>]]}

TranslationUnmarshalJSON ==
    /\ decoding.pc = "idle"
    /\ \E data \in JsonValues, t \in Translations :
          decoding' = [pc |-> "done", data |-> data, before |-> t,
                       t |-> UnmarshalJSON(t, data).t, err |-> UnmarshalJSON(t, data).err]
    /\ UNCHANGED <<callVars, requestVars, translate, concurrentVars>>

NextDecode == TranslationUnmarshalJSON

SpecDecode == Init /\ [][NextDecode]_vars

(***************************************************************************)
(* Properties.                                                             *)
(***************************************************************************)
ImportWaits == {"Memories.WaitForImport", "Glossaries.WaitForImport"}

ClientVerbs == {"Client.Get", "Client.Post", "Client.Put", "Client.Delete"}

\* the last snapshot a status fetch returned, the caller's record when none did
LastGood == IF fetched = <<>> THEN initial ELSE fetched[Len(fetched)]

\* a poller has returned at its deadline test: with a failure that is not the
\* failure of a status fetch
TimedOut == op \in Pollers /\ pc = "done" /\ ret.err # NoErr /\ Len(fetchIds) = Len(fetched)

\* a poller has returned because a status fetch failed
FetchFailed == op \in Pollers /\ Len(fetchIds) > Len(fetched)

\* C1: whenever WaitForImport returns without a failure, the returned snapshot
\* has progress >= 1.0 and is the most recently fetched snapshot, or the
\* initial snapshot when no fetch was made.
C1_ReturnsCompleteLatest ==
    (op \in ImportWaits /\ pc = "done" /\ ret.err = NoErr)
        => /\ ret.ok
           /\ ret.val.progress >= ProgressOne
           /\ ret.val = LastGood

C1_Witness ==
    /\ op = "Glossaries.WaitForImport"
    /\ pc = "done"
    /\ ret.err = NoErr
    /\ Len(fetched) = 2
    /\ ret.val # initial

\* C2: with a progress callback, when the wait returns the callback has been
\* invoked once per successful status fetch, the k-th invocation with the
\* k-th fetched snapshot, and never before the first fetch.
C2_CallbackPerFetch ==
    (op \in ImportWaits /\ updateCallback)
        => /\ Len(cbLog) <= Len(fetched)
           /\ cbLog = SubSeq(fetched, 1, Len(cbLog))
           /\ Len(fetched) - Len(cbLog) = IF pc = "callback" THEN 1 ELSE 0
           /\ pc = "done" => cbLog = fetched

C2_Witness ==
    /\ op = "Memories.WaitForImport"
    /\ updateCallback
    /\ pc = "done"
    /\ ret.err = NoErr
    /\ initial.progress = 0
    /\ Len(cbLog) = 3
    /\ cbLog[1].progress = 5
    /\ cbLog[3].progress = 10
    /\ ret.val.progress = 10

\* C3: if the initial snapshot already has progress >= 1.0, WaitForImport
\* returns that snapshot without failure and makes no status fetch, no sleep
\* and no callback invocation, with or without a maximum wait, a maximum
\* wait of zero included.
C3_ImmediateCompletion ==
    (op \in ImportWaits /\ initial.progress >= ProgressOne)
        => /\ pc \in {"test", "done"}
           /\ fetchIds = <<>>
           /\ sleeps = 0
           /\ cbLog = <<>>
           /\ pc = "done" => ret = [val |-> initial, ok |-> TRUE, err |-> NoErr]

C3_Witness ==
    /\ op \in ImportWaits
    /\ initial.progress >= ProgressOne
    /\ hasMaxWait
    /\ maxWaitTime = 0
    /\ now - start > maxWaitTime
    /\ updateCallback
    /\ pc = "done"
    /\ ret.err = NoErr

\* C4: when WaitForImport stops because the maximum wait was exceeded, the
\* snapshot returned with the failure is the last successfully fetched one,
\* the initial one only if no fetch occurred, and it is incomplete.
C4_TimeoutReturnsLastFetched ==
    (op \in ImportWaits /\ TimedOut)
        => /\ ret.ok
           /\ ret.val = LastGood
           /\ ret.val.progress < ProgressOne
           /\ hasMaxWait
           /\ now - start > maxWaitTime

C4_Witness ==
    /\ op \in ImportWaits
    /\ TimedOut
    /\ Len(fetched) >= 1
    /\ ret.val # initial

\* C5: the failure a poller reports when its maximum wait is exceeded is a
\* Timeout failure of the taxonomy, the kind (LaraTimeoutError) the transport
\* reports for a timed-out request.
C5_PollerTimeoutIsLaraTimeoutError ==
    (op \in ImportWaits /\ TimedOut)
        => GoType(ret.err) = GoType(SendError("net/http: timeout awaiting response headers"))

\* C6: if a status fetch fails during WaitForImport or waitForTranslation the
\* wait stops at once: it reports a failure, returns the snapshot that was
\* current before the failed fetch, and makes no further sleep, fetch or
\* callback invocation.
C6_FetchFailureStops ==
    /\ op \in Pollers => Len(fetchIds) - Len(fetched) \in {0, 1}
    /\ FetchFailed
        => /\ pc = "done"
           /\ out.err # NoErr
           /\ ret.err # NoErr
           /\ ret.ok
           /\ ret.val = LastGood
           /\ sleeps = Len(fetchIds)
           /\ Len(cbLog) = IF updateCallback THEN Len(fetched) ELSE 0

C6_Witness ==
    /\ op = "Documents.waitForTranslation"
    /\ FetchFailed
    /\ pc = "done"
    /\ Len(fetched) = 2
    /\ ret.val # initial

DomainOps == {"Translator.Translate", "Memories.Get", "Glossaries.Get"}

\* the failures the transport reports as values of the library's error types
TypedFailures == {"LaraError", "LaraTimeoutError", "LaraConnectionError"}

\* C7: every layer returns a failure to its caller unchanged: when the
\* transport reports an API, Timeout or Connection failure for the request of
\* a domain operation or of a poller's status fetch, the operation returns
\* that same failure, so that the caller's test for a *LaraError succeeds.
C7_FailureReturnedUnchanged ==
    (op \in DomainOps \cup Pollers /\ pc = "done" /\ GoType(out.reqErr) \in TypedFailures)
        => /\ ret.err = out.reqErr
           /\ GoType(ret.err) = GoType(out.reqErr)

\* The kind of an outcome, told as a caller can tell it: by the type of the
\* error value and by the text it starts with.
FailureKind(e) ==
    CASE e = NoErr -> "Success"
      [] GoType(e) = "LaraError" -> "API"
      [] GoType(e) = "LaraTimeoutError" -> "Timeout"
      [] GoType(e) = "LaraConnectionError" -> "Connection"
      [] GoType(e) = "errorString" /\ HasPrefix(e.msg, "API error: ") -> "GenericAPI"
      [] GoType(e) \in {"json.SyntaxError", "json.UnmarshalTypeError"} -> "Decode"
      [] e.wrap = <<"failed to parse API response: ">> -> "Decode"
      [] e.wrap = <<"failed to read response body: ">> -> "Read"
      [] e.wrap \in {<<"failed to marshal request body: ">>,
                     <<"failed to marshal body for multipart: ">>,
                     <<"failed to copy file data: ">>,
                     <<"failed to create request: ">>} -> "Prepare"
      [] OTHER -> "Other"

Responded == out.sent /\ req.beh.kind = "response"

Is2xx(status) == status >= 200 /\ status < 300

C9_ErrorEnvelopeClassification ==
    (op \in ClientVerbs /\ pc = "done" /\ Responded /\ req.beh.readOk)
        => LET b == req.beh.body IN
           IF Is2xx(req.beh.status)
           THEN FailureKind(ret.err) \notin {"API", "GenericAPI"}
           ELSE IF b.form = "object" /\ b.wellTyped /\ b.etype # ""
           THEN /\ GoType(ret.err) = "LaraError"
                /\ ret.err.status = b.status
                /\ ret.err.etype = b.etype
                /\ ret.err.msg = b.emsg
           ELSE /\ GoType(ret.err) = "errorString"
                /\ ret.err.msg = "API error: " \o b.raw

C9_Witness ==
    /\ op = "Client.Get"
    /\ pc = "done"
    /\ req.beh = Response(500, ErrorEnvelope(404, "NotFound", "nope"))
    /\ ret.err = LaraError(404, "NotFound", "nope")

OfShape(content, dest) ==
    IF dest = "Strings"
    THEN content.cform = "array"
    ELSE /\ content.cform = "object"
         /\ "progress" \notin Fields(dest) => content.obj.progress = 0
         /\ "status" \notin Fields(dest) => content.obj.status = ""
         /\ "reason" \notin Fields(dest) => content.obj.reason = ""

\* whether encoding/json refuses to store the JSON value in the destination
Undecodable(content, dest) ==
    \/ content.cform \in {"absent", "string"}
    \/ dest = "Strings" /\ content.cform \in {"object", "badfield"}
    \/ dest # "Strings" /\ content.cform \in {"array", "badfield"}

\* C11: for every response with a status in [200,300) whose body was read:
\* when the body is {"content": X} with X a JSON value of the destination's
\* shape the call succeeds and the destination equals X; when the body is
\* not an envelope, or its content is missing or cannot be stored in the
\* destination, the call ends in a Decode failure and not in success.
C11_EnvelopeRoundTrip ==
    (op \in ClientVerbs /\ pc = "done" /\ Responded /\ req.beh.readOk
                        /\ Is2xx(req.beh.status))
        => LET b == req.beh.body IN
           /\ (b.form = "object" /\ OfShape(b.content, req.dest))
                 => /\ ret.ok
                    /\ ret.val = b.content.obj
           /\ (b.form # "object" \/ Undecodable(b.content, req.dest))
                 => /\ ~ret.ok
                    /\ FailureKind(ret.err) = "Decode"

C11_Witness ==
    /\ op = "Client.Get"
    /\ pc = "done"
    /\ req.dest = "Strings"
    /\ req.beh = Response(200, StringsEnvelope)
    /\ ret.ok
    /\ ret.val = Strings(<<"en", "it">>)

\* whether the caller's extra headers of the request built name the header
CallerNames(name) ==
    \E k \in DOMAIN wire.call.headers :
        CanonicalMIMEHeaderKey(k) = CanonicalMIMEHeaderKey(name)

\* the value the caller's extra headers give the header
CallerValue(name) ==
    wire.call.headers[CHOOSE k \in DOMAIN wire.call.headers :
                          CanonicalMIMEHeaderKey(k) = CanonicalMIMEHeaderKey(name)]

IsMultipart(contentType) == HasPrefix(contentType, "multipart/form-data; boundary=")

InParts(part, parts) == \E i \in 1..Len(parts) : parts[i] = part

TransmittedAs(name, value) ==
    IF CallerNames(name) THEN HeaderGet(wire.headers, name) = CallerValue(name)
    ELSE IF value = "" THEN ~HeaderHas(wire.headers, name)
    ELSE HeaderGet(wire.headers, name) = value

SignFields == {"method", "path", "contentMD5", "contentType", "date"}

\* the fields in which two argument tuples of sign differ
Differing(a, b) == {f \in SignFields : a[f] # b[f]}

\* the arguments are the same but for the letter case of the method
SameButCase(a, b) ==
    /\ ToUpper(a.method) = ToUpper(b.method)
    /\ Differing(a, b) \subseteq {"method"}

\* C13: sign is a function of the secret and its arguments only: two calls
\* on one client whose arguments agree, the methods up to letter case,
\* return the same signature, whether or not a request was made in between,
\* and every call returns a signature.
C13_SignIsPure ==
    \A i, j \in 1..Len(signLog) :
        /\ signLog[i].signature # ""
        /\ SameButCase(signLog[i].in, signLog[j].in)
              => signLog[i].signature = signLog[j].signature

C13_Witness ==
    /\ Len(signLog) = 2
    /\ wire.sent
    /\ client.accessKeySecret = "secret"
    /\ signLog[1].in.method = "get"
    /\ signLog[2].in = [signLog[1].in EXCEPT !.method = "GET"]
    /\ signLog[1].signature = signLog[2].signature

\* the values of the fields after the method that are not empty, in order
NonEmptyFields(a) ==
    SelectSeq(<<a.path, a.contentMD5, a.contentType, a.date>>, LAMBDA v : v # "")

\* the two tuples differ only in which fields are empty
DifferInEmptyFieldsOnly(a, b) ==
    /\ a # b
    /\ a.method = b.method
    /\ NonEmptyFields(a) = NonEmptyFields(b)

\* C14 as stated: two calls of sign on one client whose arguments differ in
\* exactly one of method, path, content hash, content type and date sign
\* different strings and return different signatures, and so do two calls
\* whose arguments differ only in which field is empty.
C14_AnyChangeChangesSignature ==
    \A i, j \in 1..Len(signLog) :
        (Cardinality(Differing(signLog[i].in, signLog[j].in)) = 1
            \/ DifferInEmptyFieldsOnly(signLog[i].in, signLog[j].in))
          => /\ signLog[i].string # signLog[j].string
             /\ signLog[i].signature # signLog[j].signature

\* C14 as amended: two calls of sign on one client whose arguments differ in
\* exactly one of path, content hash, content type and date, or in the
\* method by more than letter case, sign different strings and return
\* different signatures, and so do two calls whose arguments differ only in
\* which field is empty; two calls that differ in the letter case of the
\* method only sign the same string.
C14_ChangeChangesSignature ==
    \A i, j \in 1..Len(signLog) :
        LET a == signLog[i].in
            b == signLog[j].in
        IN /\ ((Cardinality(Differing(a, b)) = 1 /\ ~SameButCase(a, b))
                  \/ DifferInEmptyFieldsOnly(a, b))
                 => /\ signLog[i].string # signLog[j].string
                    /\ signLog[i].signature # signLog[j].signature
           /\ SameButCase(a, b) => signLog[i].string = signLog[j].string

C14_Witness ==
    /\ Len(signLog) = 2
    /\ client.accessKeySecret = "secret"
    /\ signLog[1].in = [method |-> "PUT", path |-> "x", contentMD5 |-> "x",
                        contentType |-> "", date |-> "x"]
    /\ signLog[2].in = [signLog[1].in EXCEPT !.contentMD5 = "", !.contentType = "x"]
    /\ signLog[1].string # signLog[2].string
    /\ signLog[1].signature # signLog[2].signature

\* the Authorization header request builds from a signature
LaraAuthorization(c, signature) == "Lara " \o c.accessKeyID \o ":" \o signature

\* the signature of the request built, over the date transmitted
WireSignature ==
    sign(client, wire.method, wire.path, wire.body.contentMD5, wire.body.contentType,
         HeaderGet(wire.headers, "Date"))

\* C15: a request handed to the transport carries the header
\* Authorization: Lara <accessKeyId>:<signature> exactly when the key
\* identifier and the secret of the client are both not empty; when one of
\* them is empty, as with nil credentials, no signature is computed and the
\* library sets no Authorization header.
C15_SignedIffCredentials ==
    wire.sent
        => /\ (client.accessKeyID # "" /\ client.accessKeySecret # "")
                 <=> /\ HeaderHas(wire.headers, "Authorization")
                     /\ HeaderGet(wire.headers, "Authorization")
                            = LaraAuthorization(client, WireSignature)
           /\ (client.accessKeyID = "" \/ client.accessKeySecret = "")
                 => /\ ~wire.signed
                    /\ wire.signature = ""
                    /\ ~CallerNames("Authorization") => ~HeaderHas(wire.headers, "Authorization")

C15_Witness ==
    /\ wire.sent
    /\ client = NewTranslator(NewCredentials("key", "secret"))
    /\ wire.signature # ""
    /\ HeaderGet(wire.headers, "Authorization") = "Lara key:" \o wire.signature

\* the names of the headers request sets on every request
FixedNames == {"X-HTTP-Method-Override", "Date", "X-Lara-SDK-Name", "X-Lara-SDK-Version"}

\* C16: in every request handed to the transport a fixed header that the
\* caller's extra headers name has the caller's value, and the
\* Authorization header, with or without configured credentials, is never
\* the value the caller supplied.
C16_CallerNeverSetsAuthorization ==
    wire.sent
        => /\ \A name \in FixedNames :
                 CallerNames(name) => HeaderGet(wire.headers, name) = CallerValue(name)
           /\ CallerNames("Authorization")
                 => ~ /\ HeaderHas(wire.headers, "Authorization")
                      /\ HeaderGet(wire.headers, "Authorization") = CallerValue("Authorization")

\* C17: in every signed request the date given to sign is the value of the
\* Date header that is transmitted, also when the caller's extra headers
\* name Date, and the Authorization header carries the signature over it.
C17_SignedDateIsTransmittedDate ==
    (wire.sent /\ wire.signed)
        => /\ HeaderHas(wire.headers, "Date")
           /\ wire.signedDate = HeaderGet(wire.headers, "Date")
           /\ wire.signature = WireSignature
           /\ HeaderGet(wire.headers, "Authorization")
                  = LaraAuthorization(client, wire.signature)

C17_Witness ==
    /\ wire.sent
    /\ wire.signed
    /\ CallerNames("Date")
    /\ CallerValue("Date") = CallerDate
    /\ HeaderGet(wire.headers, "Date") = CallerDate
    /\ wire.signedDate = CallerDate
    /\ wire.fixed["Date"] = httpDate(wire.call.t)

\* whether the call of TranslateWithOptions has issued the request
Issued(name) == \E i \in 1..Len(translate.requests) : translate.requests[i] = name

\* the wait of the call of TranslateWithOptions has ended, without failure,
\* with the document in the status
WaitEndedIn(status) ==
    /\ translate.pc = "done"
    /\ op = "Documents.waitForTranslation"
    /\ pc = "done"
    /\ ret.err = NoErr
    /\ ret.val.status = status

\* C18: when the wait of TranslateWithOptions ends with the document in
\* status error the call returns a failure with the document's error reason,
\* or with the text "translation failed" when the document has none, returns
\* no stream and issues neither the download-url request nor the download
\* from the object store; these are issued only after the wait has ended
\* with the status translated, and only then is a stream returned.
C18_ErrorStatusFailsWithoutDownload ==
    /\ WaitEndedIn(DocumentStatusError)
          => /\ translate.err
                    = ErrorString("document translation failed: "
                                      \o (IF ret.val.reason # "" THEN ret.val.reason
                                          ELSE "translation failed"))
             /\ ~translate.stream
             /\ ~Issued("GET /documents/download-url")
             /\ ~Issued("S3 download")
    /\ (Issued("GET /documents/download-url") \/ Issued("S3 download") \/ translate.stream)
          => WaitEndedIn(DocumentStatusTranslated)

C18_Witness ==
    /\ WaitEndedIn(DocumentStatusError)
    /\ Len(fetched) > 0
    /\ ret.val.reason = ""
    /\ translate.err = ErrorString("document translation failed: translation failed")
    /\ translate.requests = <<"GET /documents/upload-url", "S3 upload", "POST /documents">>

\* C20: a poller never modifies the record its caller passed: while the wait
\* runs and after it has returned every field of that record has the value
\* it had at the call; what the status fetches report reaches the caller
\* through the returned snapshot and the callback's argument only.
C20_CallerRecordUnmodified ==
    op \in Pollers
        => /\ callerRecord = initial
           /\ (pc = "done" /\ fetched # <<>> /\ ~FetchFailed)
                 => /\ ret.val = fetched[Len(fetched)]
                    /\ currentRef # "caller"

C20_Witness ==
    /\ op = "Memories.WaitForImport"
    /\ pc = "done"
    /\ Len(fetched) = 2
    /\ ret.val = fetched[2]
    /\ ret.val # initial
    /\ cbLog = fetched
    /\ callerRecord = initial

(***************************************************************************)
(* C19                                                                     *)
(***************************************************************************)
\* the server's answer to the k-th status fetch of waiter w when it runs alone
AloneAnswer(w, k) == FetchResult[waits[w].op][ServerScript(waits[w].op, JobOf(w), k)]

\* the last record waiter w was handed: the latest good fetch, or its argument
LastHanded(w) ==
    IF waits[w].fetched = <<>> THEN waits[w].initial
    ELSE waits[w].fetched[Len(waits[w].fetched)]

\* the fetches of waiter w are those of a run alone against its job's script
FetchesAsAlone(w) ==
    LET f == waits[w] IN
    /\ \A k \in 1..Len(f.fetchIds) : f.fetchIds[k] = JobOf(w)
    /\ served[JobOf(w)] = Len(f.fetchIds)
    /\ \A k \in 1..Len(f.fetched) :
          /\ AloneAnswer(w, k).err = NoErr
          /\ f.fetched[k] = AloneAnswer(w, k).val
          /\ k < Len(f.fetched) => ~Complete(f.op, f.fetched[k])
    /\ Len(f.fetchIds) \in {Len(f.fetched), Len(f.fetched) + 1}
    /\ f.pc # "done" => Len(f.fetchIds) = Len(f.fetched)

\* the callback of waiter w saw each record it fetched, in order, and no other
CallbacksAsAlone(w) ==
    LET f == waits[w] IN
    IF f.updateCallback
    THEN IF f.pc = "callback"
         THEN f.cbLog = SubSeq(f.fetched, 1, Len(f.fetched) - 1)
         ELSE f.cbLog = f.fetched
    ELSE f.cbLog = <<>>

\* the result of waiter w is the one its own fetches lead to
ResultAsAlone(w) ==
    LET f == waits[w] IN
    f.pc = "done" =>
       /\ f.ret.val = LastHanded(w)
       /\ \/ /\ f.ret.err = NoErr
             /\ Len(f.fetchIds) = Len(f.fetched)
             /\ Complete(f.op, LastHanded(w))
          \/ /\ f.ret.err = TimeoutFailure(f.op)
             /\ Len(f.fetchIds) = Len(f.fetched)
             /\ f.hasMaxWait
             /\ ~Complete(f.op, LastHanded(w))
          \/ /\ Len(f.fetchIds) = Len(f.fetched) + 1
             /\ AloneAnswer(w, Len(f.fetchIds)).err # NoErr
             /\ f.ret.err = FetchFailure(f.op, AloneAnswer(w, Len(f.fetchIds)).err)

\* C19: two waits running concurrently on one translator for different jobs
\* do not interfere: under every interleaving each wait's result, its
\* sequence of fetched identifiers and its callback invocations are those of
\* a run alone against the same per-job server responses.
C19_ConcurrentWaitsIndependent ==
    \A w \in Waiters :
       waits[w].pc # "idle" =>
          FetchesAsAlone(w) /\ CallbacksAsAlone(w) /\ ResultAsAlone(w)

\* both waits overlapped, each fetched twice, and both have returned
C19_Witness ==
    /\ \A w \in Waiters : waits[w].pc = "done" /\ Len(waits[w].fetchIds) = 2
    /\ waits[1].start = 0
    /\ waits[2].start = 1
    /\ waits[1].updateCallback /\ Len(waits[1].cbLog) = 2
    /\ waits[2].ret.err # NoErr

(***************************************************************************)
(* C21                                                                     *)
(***************************************************************************)
\* the calls of the client that send a request
SendingVerbs == ClientVerbs \cup {"Client.GetRaw"}

\* how often the call of TranslateWithOptions has issued the request
TimesIssued(name) ==
    Cardinality({i \in 1..Len(translate.requests) : translate.requests[i] = name})

\* the operations that start the job of TranslateWithOptions
StartingRequests == {"GET /documents/upload-url", "S3 upload", "POST /documents"}

\* C21: each call of Client.Get/Post/Put/Delete/GetRaw sends at most one HTTP
\* request, whatever the outcome (one when the request was prepared, none
\* otherwise); each status fetch of a poller is one GET for the job's
\* status, and the operation that started the job is issued once and never
\* again by the wait.
C21_NoSilentRetry ==
    /\ out.sends <= 1
    /\ (op \in SendingVerbs /\ pc = "done")
          => out.sends = (IF PrepareError(req.urlOk, req.body, req.files) = NoErr
                          THEN 1 ELSE 0)
    /\ (op \in Pollers /\ fetchIds # <<>>)
          => /\ req.verb = "GET"
             /\ req.dest = (IF op = "Documents.waitForTranslation" THEN "Document" ELSE "Import")
             /\ out.sends = 1
    /\ \A name \in StartingRequests : TimesIssued(name) <= 1
    /\ translate.pc = "wait"
          => translate.requests
                = <<"GET /documents/upload-url", "S3 upload", "POST /documents">>

\* a verb whose request failed in the transport has sent it once
C21_Witness ==
    /\ op = "Client.GetRaw"
    /\ pc = "done"
    /\ req.beh.kind = "error"
    /\ GoType(ret.err) = "LaraConnectionError"
    /\ out.sends = 1

(***************************************************************************)
(* C22                                                                     *)
(***************************************************************************)
\* one step of a poller from one place of its loop to the next
IterationStep ==
    \/ /\ pc = "idle" /\ pc' = "test"
    \/ /\ pc = "test" /\ pc' = "deadline"
       /\ ~Complete(op, current)
    \/ /\ pc = "test" /\ pc' = "done"
       /\ Complete(op, current)
       /\ ret'.err = NoErr
    \/ /\ pc = "deadline" /\ pc' = "sleep"
       /\ ~Expired(op, hasMaxWait, maxWaitTime, now - start)
    \/ /\ pc = "deadline" /\ pc' = "done"
       /\ Expired(op, hasMaxWait, maxWaitTime, now - start)
       /\ ret'.err = TimeoutFailure(op)
    \/ /\ pc = "sleep" /\ pc' = "fetch"
       /\ sleeps' = sleeps + 1
       /\ now' = now + PollInterval
       /\ fetchIds' = fetchIds
    \/ /\ pc = "fetch" /\ pc' = (IF op \in ImportWaits THEN "callback" ELSE "test")
       /\ Len(fetchIds') = Len(fetchIds) + 1
       /\ Len(fetched') = Len(fetched) + 1
       /\ current' = fetched'[Len(fetched')]
       /\ sleeps' = sleeps
       /\ cbLog' = cbLog
    \/ /\ pc = "fetch" /\ pc' = "done"
       /\ Len(fetchIds') = Len(fetchIds) + 1
       /\ fetched' = fetched
       /\ ret'.err # NoErr
    \/ /\ pc = "callback" /\ pc' = "test"
       /\ current' = current
       /\ cbLog' = (IF updateCallback THEN Append(cbLog, current) ELSE cbLog)

\* where a poller stands: one sleep of the poll interval for each fetch made
\* or about to be made, and a job a fetch found complete returned as a success
IterationCount ==
    op \in Pollers =>
       /\ sleeps = Len(fetchIds) + (IF pc = "fetch" THEN 1 ELSE 0)
       /\ now - start >= PollInterval * sleeps
       /\ (pc = "done" /\ Len(fetchIds) = Len(fetched) /\ Complete(op, LastGood))
             => ret.err = NoErr

\* C22: each iteration of a poller loop runs, in this order: completion
\* test, deadline test, one sleep of the 2-second poll interval, one status
\* fetch, replacement of the current snapshot, callback; so every status
\* fetch is preceded by exactly one sleep since the previous fetch, the
\* deadline is tested only before a sleep, and a job found complete by a
\* fetch is returned as a success even if the maximum wait has elapsed.
C22_IterationOrder ==
    /\ []IterationCount
    /\ [][(op' \in Pollers /\ pc' # pc) => IterationStep]_vars

\* a wait with a callback that fetched twice and returned the complete job
\* as a success after its maximum wait had elapsed
C22_Witness ==
    /\ op \in ImportWaits
    /\ pc = "done"
    /\ ret.err = NoErr
    /\ hasMaxWait
    /\ now - start > maxWaitTime
    /\ sleeps = 2
    /\ Len(fetched) = 2
    /\ updateCallback
    /\ Len(cbLog) = 2

(***************************************************************************)
(* C23                                                                     *)
(***************************************************************************)
\* a wait for an import that was given a maximum wait
BoundedWait == op \in ImportWaits /\ hasMaxWait

\* the elapsed time is strictly greater than the maximum wait
PastDeadline == now - start > maxWaitTime

\* what a bounded wait does at its deadline test, at its fetch and after it
\* has returned
StopsAtFirst ==
    BoundedWait =>
       /\ (pc = "deadline" /\ pc' # pc)
             => IF PastDeadline
                THEN pc' = "done" /\ ret'.err = TimeoutFailure(op) /\ sleeps' = sleeps
                ELSE pc' = "sleep"
       /\ (pc = "fetch" /\ pc' # pc /\ Len(fetched') = Len(fetched))
             => pc' = "done" /\ ret'.err # NoErr
       /\ pc = "done"
             => pc' = "done" /\ sleeps' = sleeps /\ fetchIds' = fetchIds /\ ret' = ret

\* C23: when a maximum wait is given, every WaitForImport call eventually
\* returns whatever snapshots the server reports, provided each status fetch
\* returns and time advances; it stops on the first fetch failure or on the
\* first deadline test that finds the elapsed time strictly greater than the
\* maximum wait, and it starts no sleep after such a test.
C23_BoundedWaitReturns ==
    /\ BoundedWait ~> (pc = "done")
    /\ [][StopsAtFirst]_vars

\* a wait that saw two incomplete snapshots and returned at its third
\* deadline test
C23_Witness ==
    /\ BoundedWait
    /\ pc = "done"
    /\ maxWaitTime = 3
    /\ ret.err = TimeoutFailure(op)
    /\ Len(fetched) = 2
    /\ sleeps = 2
    /\ ~Complete(op, ret.val)

(***************************************************************************)
(* C24                                                                     *)
(***************************************************************************)
\* the JSON value is a string, a list of strings, a list of text blocks
IsString(v) == v.kind = "string"

IsStringList(v) ==
    v.kind = "array" /\ \A i \in 1..Len(v.elems) : v.elems[i].kind = "string"

IsBlockList(v) ==
    v.kind = "array"
        /\ \A i \in 1..Len(v.elems) : v.elems[i].kind = "object" /\ v.elems[i].textOk

\* the first shape, in the order of the attempts, that the value matches
FirstShape(v) ==
    IF IsString(v) THEN "String"
    ELSE IF IsStringList(v) THEN "Strings"
    ELSE IF IsBlockList(v) THEN "TextBlocks"
    ELSE "none"

\* C24: Translation.UnmarshalJSON tries the shapes string, list of strings,
\* list of text blocks in that order and selects the first that parses: on
\* success exactly one of String, Strings, TextBlocks is set by the call and
\* it is the first shape in that order the input matches; an input matching
\* none of the three yields a decode failure.
C24_FirstMatchingShape ==
    decoding.pc = "done" =>
       /\ decoding.err = NoErr
             => /\ FirstShape(decoding.data) # "none"
                /\ \A f \in {"String", "Strings", "TextBlocks"} :
                      IF f = FirstShape(decoding.data)
                      THEN ~decoding.t[f].isNil
                      ELSE decoding.t[f] = decoding.before[f]
       /\ FirstShape(decoding.data) = "none"
             => /\ decoding.err = ErrorString("translation: unsupported data type")
                /\ decoding.t = decoding.before

(***************************************************************************)
(* C25                                                                     *)
(***************************************************************************)
\* the header is transmitted with the value, or not at all when the value is
\* empty
TransmittedOrAbsent(name, value) ==
    IF value = ""
    THEN ~HeaderHas(wire.headers, name)
    ELSE HeaderHas(wire.headers, name) /\ HeaderGet(wire.headers, name) = value

\* C25: in every signed request the content hash and the content type that
\* enter the signature equal the Content-MD5 and Content-Type header values
\* transmitted (both absent when the signed value is empty), also when the
\* caller's extra headers name Content-Type or Content-MD5.
C25_SignedContentIsTransmitted ==
    (wire.sent /\ wire.signed)
        => /\ wire.signature
                 = sign(client, wire.method, wire.path, wire.body.contentMD5,
                        wire.body.contentType, wire.signedDate)
           /\ TransmittedOrAbsent("Content-MD5", wire.body.contentMD5)
           /\ TransmittedOrAbsent("Content-Type", wire.body.contentType)

(***************************************************************************)
(* C26                                                                     *)
(***************************************************************************)
\* C26: every status fetch a poller makes during one wait is for the
\* identifier of the job in the initial snapshot, whatever identifiers the
\* fetched snapshots carry.
C26_FetchesInitialIdentifier ==
    op \in Pollers => \A k \in 1..Len(fetchIds) : fetchIds[k] = initial.id

(***************************************************************************)
(* C27                                                                     *)
(***************************************************************************)
\* the document statuses that end the wait
TerminalStatuses == {DocumentStatusTranslated, DocumentStatusError}

\* the document, as passed and in every snapshot fetched so far, is in a
\* status that is not terminal, and no status fetch has failed
StaysNonTerminal ==
    /\ op = "Documents.waitForTranslation"
    /\ initial.status \notin TerminalStatuses
    /\ \A k \in 1..Len(fetched) : fetched[k].status \notin TerminalStatuses
    /\ Len(fetchIds) = Len(fetched)

\* C27: waitForTranslation returns only when the current document status is
\* translated or error (without a failure) or when a status fetch fails; it
\* never reports a timeout, so while the document stays in a status that is
\* not terminal and the fetches succeed, neither the wait nor the
\* TranslateWithOptions call it belongs to returns.
C27_WaitForTranslationNeverTimesOut ==
    /\ (op = "Documents.waitForTranslation" /\ pc = "done")
          => \/ ret.err = NoErr /\ ret.val.status \in TerminalStatuses /\ ret.val = LastGood
             \/ FetchFailed /\ ret.err = Wrap("failed to get document status: ", out.err)
    /\ op = "Documents.waitForTranslation"
          => ret.err # TimeoutFailure("Documents.waitForTranslation")
    /\ StaysNonTerminal
          => /\ pc # "done"
             /\ translate.pc \in {"none", "wait"}

\* a TranslateWithOptions call still waiting, seven seconds after its start,
\* for a document it has seen paused and translating
C27_Witness ==
    /\ StaysNonTerminal
    /\ translate.pc = "wait"
    /\ now - start = MaxTime
    /\ Len(fetched) = 2
    /\ fetched[1].status = "paused"
    /\ fetched[2].status = "translating"
    /\ pc = "deadline"

(***************************************************************************)
(* C28                                                                     *)
(***************************************************************************)
\* what a callback that kept the snapshot of its k-th invocation reads now
Retained(k) == Pointee(CallbackArgument)

\* C28: a snapshot passed to the progress callback of WaitForImport is an
\* immutable point-in-time copy: the field values the callback observed at
\* invocation k are not changed by the poller's later fetches, so a callback
\* that retains the snapshot still reads the k-th fetched values after the
\* wait has continued or returned.
C28_CallbackSnapshotImmutable ==
    (op \in ImportWaits /\ updateCallback)
        => \A k \in 1..Len(cbLog) : Retained(k) = cbLog[k] /\ cbLog[k] = fetched[k]

(***************************************************************************)
(* C29                                                                     *)
(***************************************************************************)
\* C29: the Status carried by an API failure (LaraError) equals the HTTP
\* status code of the response that produced it, for every response with a
\* status outside [200,300) and a parseable error envelope.
C29_StatusIsHttpStatus ==
    (op \in SendingVerbs /\ pc = "done" /\ Responded /\ req.beh.readOk
        /\ ~Is2xx(req.beh.status) /\ GoType(ret.err) = "LaraError")
        => ret.err.status = req.beh.status

(***************************************************************************)
(* C30                                                                     *)
(***************************************************************************)
GetOps == {"Memories.Get", "Glossaries.Get"}

\* the text the operation puts before a failure it returns
GetPrefix == IF op = "Memories.Get" THEN "failed to get memory: " ELSE "failed to get glossary: "

\* the transport reported an API failure with status 404
NotFoundReported == GoType(out.err) = "LaraError" /\ out.err.status = 404

\* C30: MemoriesService.Get and GlossariesService.Get return no object and
\* no failure exactly when the transport reports an API failure with status
\* 404; every other failure (an API failure with another status, a generic
\* API failure even on an HTTP 404 response, Connection, Timeout, Decode) is
\* returned as a failure with no object, and a success returns the decoded
\* object.
C30_GetNotFoundIsNil ==
    (op \in GetOps /\ pc = "done")
        => /\ (~ret.ok /\ ret.err = NoErr) <=> NotFoundReported
           /\ (out.err # NoErr /\ ~NotFoundReported)
                 => /\ ~ret.ok
                    /\ ret.err = Wrap(GetPrefix, out.err)
                    /\ FailureKind(out.err) \in {"API", "GenericAPI", "Connection", "Timeout",
                                                 "Decode", "Read", "Prepare"}
           /\ (Responded /\ req.beh.status = 404 /\ FailureKind(out.err) = "GenericAPI")
                 => ~ret.ok /\ ret.err # NoErr
           /\ out.err = NoErr
                 => ret.ok /\ ret.err = NoErr /\ ret.val = out.val /\ out.decoded

\* a get answered with 404 and a not-found envelope returns neither an
\* object nor a failure
C30_Witness ==
    /\ op = "Glossaries.Get"
    /\ pc = "done"
    /\ req.beh = Response(404, ErrorEnvelope(404, "NotFound", "nope"))
    /\ out.err = LaraError(404, "NotFound", "nope")
    /\ ~ret.ok
    /\ ret.err = NoErr

=============================================================================
